---- MODULE Spec2Model ----
(***************************************************************************)
(* A model of the dto-map-builder front end: the schema input form         *)
(* (ApiSpecInput), the page that wires the steps together (Index), the     *)
(* field mapping form (VisualMapping), the output panel with its three     *)
(* backend actions (GeneratedOutput) and the schema builder                *)
(* (SchemaBuilder).                                                        *)
(*                                                                         *)
(* JavaScript strings that the code inspects or builds are sequences of    *)
(* one-character strings, so that trim, toLowerCase, the /request$/        *)
(* replacement, JSON.parse, JSON.stringify and path joining are computed   *)
(* character by character.  JSON values are records [t, v]: t is the kind  *)
(* and v the payload; an object's payload is the sequence of its own       *)
(* <<key, value>> pairs in Object.keys order.                              *)
(***************************************************************************)
EXTENDS Integers, Sequences, FiniteSets, TLC

(***************************************************************************)
(* Characters and strings                                                  *)
(***************************************************************************)
Digits == <<"0", "1", "2", "3", "4", "5", "6", "7", "8", "9">>

IsDigit(c) == \E i \in 1..Len(Digits) : Digits[i] = c

DigitVal(c) == (CHOOSE i \in 1..Len(Digits) : Digits[i] = c) - 1

\* The characters JSON.parse skips between tokens.
IsJsonWs(c) == c \in {" ", "\n", "\t", "\r"}

\* The characters String.prototype.trim strips: JSON's four and the other
\* WhiteSpace / LineTerminator code points, of which "NBSP" (U+00A0) stands here.
IsTrimWs(c) == c \in {" ", "\n", "\t", "\r", "NBSP"}

\* Control characters, which JSON.parse rejects inside a string literal.
IsControl(c) == c \in {"\n", "\t", "\r"}

\* s without its leading white space
TrimLeft(s) ==
    LET first == CHOOSE i \in 1..(Len(s) + 1) :
                     /\ i = Len(s) + 1 \/ ~IsTrimWs(s[i])
                     /\ \A k \in 1..(i - 1) : IsTrimWs(s[k])
    IN SubSeq(s, first, Len(s))

\* s without its trailing white space
TrimRight(s) ==
    LET last == CHOOSE i \in 0..Len(s) :
                    /\ i = 0 \/ ~IsTrimWs(s[i])
                    /\ \A k \in (i + 1)..Len(s) : IsTrimWs(s[k])
    IN SubSeq(s, 1, last)

\* String.prototype.trim
trim(s) == TrimRight(TrimLeft(s))

\* Number -> decimal string, as Array indices and JSON.stringify print integers.
RECURSIVE NatToStr(_)
NatToStr(n) == IF n < 10 THEN <<Digits[n + 1]>> ELSE NatToStr(n \div 10) \o <<Digits[(n % 10) + 1]>>

IntToStr(n) == IF n < 0 THEN <<"-">> \o NatToStr(-n) ELSE NatToStr(n)

RECURSIVE StrToNat(_)
StrToNat(s) == IF s = <<>> THEN 0 ELSE 10 * StrToNat(SubSeq(s, 1, Len(s) - 1)) + DigitVal(s[Len(s)])

startsWith(s, p) == Len(s) >= Len(p) /\ SubSeq(s, 1, Len(p)) = p

endsWith(s, p) == Len(s) >= Len(p) /\ SubSeq(s, Len(s) - Len(p) + 1, Len(s)) = p

(***************************************************************************)
(* JSON values                                                             *)
(***************************************************************************)
Undefined == [t |-> "undefined", v |-> <<>>]
JNull == [t |-> "null", v |-> <<>>]
JBool(b) == [t |-> "bool", v |-> b]
JNum(n) == [t |-> "num", v |-> n]
JStr(s) == [t |-> "str", v |-> s]
JArr(items) == [t |-> "arr", v |-> items]
JObj(pairs) == [t |-> "obj", v |-> pairs]

\* ToBoolean, as `x && ...`, `!x` and `x || y` apply it.
Truthy(x) ==
    CASE x.t = "undefined" -> FALSE
      [] x.t = "null" -> FALSE
      [] x.t = "bool" -> x.v
      [] x.t = "num" -> x.v # 0
      [] x.t = "str" -> x.v # <<>>
      [] OTHER -> TRUE

\* typeof x === 'object' (true of null as well).
TypeofObject(x) == x.t \in {"null", "arr", "obj"}

\* 2^32 - 1 in decimal: array indices are the integers below it
ArrayIndexLimit == <<"4", "2", "9", "4", "9", "6", "7", "2", "9", "5">>

\* a < b for two digit strings without leading zeros, compared digit by digit
\* (the numbers may exceed what the model's integers hold)
IndexLess(a, b) ==
    \/ Len(a) < Len(b)
    \/ /\ Len(a) = Len(b)
       /\ \E i \in 1..Len(a) :
             /\ DigitVal(a[i]) < DigitVal(b[i])
             /\ \A j \in 1..(i - 1) : a[j] = b[j]

\* A canonical array index: "0", or digits without a leading zero, of a number
\* below 2^32 - 1.  Own keys of this form come first in Object.keys, in
\* ascending numeric order; every other string key keeps its insertion order.
IsArrayIndex(k) ==
    /\ k # <<>>
    /\ \A i \in 1..Len(k) : IsDigit(k[i])
    /\ (Len(k) > 1 => k[1] # "0")
    /\ IndexLess(k, ArrayIndexLimit)

ProtoKey == <<"_", "_", "p", "r", "o", "t", "o", "_", "_">>

HasKey(pairs, k) == \E i \in 1..Len(pairs) : pairs[i][1] = k

KeyPos(pairs, k) == CHOOSE i \in 1..Len(pairs) : pairs[i][1] = k

\* Where a new own key k goes in the Object.keys order of `pairs`.
InsertPos(pairs, k) ==
    IF IsArrayIndex(k)
    THEN Cardinality({i \in 1..Len(pairs) :
             IsArrayIndex(pairs[i][1]) /\ IndexLess(pairs[i][1], k)}) + 1
    ELSE Len(pairs) + 1

\* CreateDataProperty(obj, k, val): what JSON.parse and an object literal do.
DefineProp(pairs, k, val) ==
    IF HasKey(pairs, k)
    THEN [pairs EXCEPT ![KeyPos(pairs, k)] = <<k, val>>]
    ELSE LET p == InsertPos(pairs, k)
         IN SubSeq(pairs, 1, p - 1) \o << <<k, val>> >> \o SubSeq(pairs, p, Len(pairs))

\* obj[k] = val on a plain object: assigning an object or null to "__proto__"
\* runs the Object.prototype setter and creates no own property.
AssignProp(pairs, k, val) ==
    IF k = ProtoKey
    THEN pairs
    ELSE DefineProp(pairs, k, val)

\* x.name / x[name] for a JSON value x that is not null or undefined: own
\* properties of objects, elements of arrays, characters of strings.
GetProp(x, k) ==
    CASE x.t = "obj" -> IF HasKey(x.v, k) THEN x.v[KeyPos(x.v, k)][2] ELSE Undefined
      [] x.t = "arr" ->
            IF IsArrayIndex(k) /\ IndexLess(k, NatToStr(Len(x.v))) THEN x.v[StrToNat(k) + 1] ELSE Undefined
      [] x.t = "str" ->
            IF IsArrayIndex(k) /\ IndexLess(k, NatToStr(Len(x.v))) THEN JStr(<<x.v[StrToNat(k) + 1]>>) ELSE Undefined
      [] OTHER -> Undefined

\* Object.keys(x) for a JSON value x that is not null or undefined.
ObjectKeys(x) ==
    CASE x.t = "obj" -> [i \in 1..Len(x.v) |-> x.v[i][1]]
      [] x.t \in {"arr", "str"} -> [i \in 1..Len(x.v) |-> NatToStr(i - 1)]
      [] OTHER -> <<>>

(***************************************************************************)
(* JSON.parse and JSON.stringify                                           *)
(*                                                                         *)
(* The grammar modelled: the four whitespace characters, null, true,       *)
(* false, integer literals, string literals with the escapes \" \\ \/ \n   *)
(* \t \r, arrays and objects.  Fractions, exponents and \b \f \u escapes   *)
(* are not in the alphabet of the texts explored.                          *)
(***************************************************************************)
ParseFail == [ok |-> FALSE, val |-> Undefined, pos |-> 0]

ParseOk(val, pos) == [ok |-> TRUE, val |-> val, pos |-> pos]

\* The first position from `from` on that holds no white space (Len(s) + 1
\* if there is none)
SkipWs(s, from) ==
    CHOOSE j \in {IF i > Len(s) THEN i
                  ELSE CHOOSE j \in i..(Len(s) + 1) :
                           /\ j = Len(s) + 1 \/ ~IsJsonWs(s[j])
                           /\ \A k \in i..(j - 1) : IsJsonWs(s[k]) : i \in {from}} : TRUE

\* The characters that end a run of plain characters in a string literal
IsSpecial(c) == c = "\"" \/ c = "\\" \/ IsControl(c)

\* The first position from `from` on that holds a special character
\* (Len(s) + 1 if there is none)
PlainEnd(s, from) ==
    CHOOSE j \in {IF i > Len(s) THEN i
                  ELSE CHOOSE j \in i..(Len(s) + 1) :
                           /\ j = Len(s) + 1 \/ IsSpecial(s[j])
                           /\ \A k \in i..(j - 1) : ~IsSpecial(s[k]) : i \in {from}} : TRUE

RECURSIVE ParseString(_, _, _)
RECURSIVE StringFrom(_, _, _)

\* The body of a string literal from position i (after the opening quote):
\* the plain characters up to the next special one, then StringFrom.
ParseString(s, i, acc) ==
    CHOOSE r \in {StringFrom(s, e, acc \o SubSeq(s, i, e - 1)) : e \in {PlainEnd(s, i)}} : TRUE

\* The rest of a string literal from the special character at position e
StringFrom(s, e, run) ==
    IF e > Len(s) THEN ParseFail
    ELSE IF s[e] = "\"" THEN ParseOk(JStr(run), e + 1)
    ELSE IF IsControl(s[e]) THEN ParseFail
    ELSE IF e + 1 > Len(s) THEN ParseFail
    ELSE CASE s[e + 1] \in {"\"", "\\", "/"} -> ParseString(s, e + 2, Append(run, s[e + 1]))
           [] s[e + 1] = "n" -> ParseString(s, e + 2, Append(run, "\n"))
           [] s[e + 1] = "t" -> ParseString(s, e + 2, Append(run, "\t"))
           [] s[e + 1] = "r" -> ParseString(s, e + 2, Append(run, "\r"))
           [] OTHER -> ParseFail

\* The first position from `from` on that holds no digit (Len(s) + 1 if
\* there is none)
DigitsEnd(s, from) ==
    CHOOSE j \in {IF i > Len(s) THEN i
                  ELSE CHOOSE j \in i..(Len(s) + 1) :
                           /\ j = Len(s) + 1 \/ ~IsDigit(s[j])
                           /\ \A k \in i..(j - 1) : IsDigit(s[k]) : i \in {from}} : TRUE

\* -?(0|[1-9][0-9]*) from position i.
ParseNumber(s, i) ==
    LET neg == s[i] = "-"
        d == IF neg THEN i + 1 ELSE i
        e == DigitsEnd(s, d)
    IN IF e = d THEN ParseFail
       ELSE IF s[d] = "0" /\ e > d + 1 THEN ParseOk(JNum(0), d + 1)
       ELSE ParseOk(JNum(IF neg THEN -StrToNat(SubSeq(s, d, e - 1))
                                ELSE StrToNat(SubSeq(s, d, e - 1))), e)

ParseLiteral(s, i, word, val) ==
    IF Len(s) >= i + Len(word) - 1 /\ SubSeq(s, i, i + Len(word) - 1) = word
    THEN ParseOk(val, i + Len(word))
    ELSE ParseFail

RECURSIVE ParseValue(_, _)
RECURSIVE ParseElements(_, _, _)
RECURSIVE ParseMembers(_, _, _)

\* The value that starts at position j, which holds no white space
ValueAt(s, j) ==
    IF j > Len(s) THEN ParseFail
    ELSE CASE s[j] = "{" ->
                CHOOSE r \in {IF k <= Len(s) /\ s[k] = "}" THEN ParseOk(JObj(<<>>), k + 1)
                              ELSE ParseMembers(s, k, <<>>) : k \in {SkipWs(s, j + 1)}} : TRUE
           [] s[j] = "[" ->
                CHOOSE r \in {IF k <= Len(s) /\ s[k] = "]" THEN ParseOk(JArr(<<>>), k + 1)
                              ELSE ParseElements(s, k, <<>>) : k \in {SkipWs(s, j + 1)}} : TRUE
           [] s[j] = "\"" -> ParseString(s, j + 1, <<>>)
           [] s[j] = "t" -> ParseLiteral(s, j, <<"t", "r", "u", "e">>, JBool(TRUE))
           [] s[j] = "f" -> ParseLiteral(s, j, <<"f", "a", "l", "s", "e">>, JBool(FALSE))
           [] s[j] = "n" -> ParseLiteral(s, j, <<"n", "u", "l", "l">>, JNull)
           [] s[j] = "-" \/ IsDigit(s[j]) -> ParseNumber(s, j)
           [] OTHER -> ParseFail

\* The value from position i, after any white space
ParseValue(s, i) == CHOOSE r \in {ValueAt(s, j) : j \in {SkipWs(s, i)}} : TRUE

\* What follows the element r of an array: ] or , and the next element
ElementsAfter(s, r, k, acc) ==
    IF k > Len(s) THEN ParseFail
    ELSE IF s[k] = "]" THEN ParseOk(JArr(Append(acc, r.val)), k + 1)
    ELSE IF s[k] = "," THEN ParseElements(s, k + 1, Append(acc, r.val))
    ELSE ParseFail

\* value (, value)* ] from position i.
ParseElements(s, i, acc) ==
    CHOOSE out \in {IF ~r.ok THEN ParseFail
                    ELSE CHOOSE o \in {ElementsAfter(s, r, k, a) : k \in {SkipWs(s, r.pos)}} : TRUE :
                        r \in {ParseValue(s, i)}, a \in {acc}} : TRUE

\* What follows the member key : r of an object: } or , and the next member
MembersAfter(s, k, next) ==
    IF k > Len(s) THEN ParseFail
    ELSE IF s[k] = "}" THEN ParseOk(JObj(next), k + 1)
    ELSE IF s[k] = "," THEN ParseMembers(s, k + 1, next)
    ELSE ParseFail

\* The member whose key has been read: the colon, the value and what follows
MemberValue(s, key, c, acc) ==
    IF c > Len(s) \/ s[c] # ":" THEN ParseFail
    ELSE CHOOSE out \in {IF ~r.ok THEN ParseFail
                         ELSE CHOOSE o \in {MembersAfter(s, k, next) :
                                               k \in {SkipWs(s, r.pos)},
                                               next \in {DefineProp(acc, key.val.v, r.val)}} : TRUE :
                             r \in {ParseValue(s, c + 1)}} : TRUE

\* "key" : value (, "key" : value)* } from position i.
ParseMembers(s, i, acc) ==
    CHOOSE out \in {IF j > Len(s) \/ s[j] # "\"" THEN ParseFail
                    ELSE CHOOSE o \in {IF ~key.ok THEN ParseFail
                                       ELSE CHOOSE p \in {MemberValue(s, key, c, a) :
                                                             c \in {SkipWs(s, key.pos)}} : TRUE :
                                           key \in {ParseString(s, j + 1, <<>>)}} : TRUE :
                        j \in {SkipWs(s, i)}, a \in {acc}} : TRUE

\* The whole of text t is one JSON value
ParseText(t) ==
    CHOOSE out \in {IF r.ok /\ SkipWs(t, r.pos) > Len(t)
                    THEN [ok |-> TRUE, val |-> r.val]
                    ELSE [ok |-> FALSE, val |-> Undefined] : r \in {ParseValue(t, 1)}} : TRUE

\* JSON.parse(s): ok is FALSE where JSON.parse throws a SyntaxError.
JSONparse(s) == CHOOSE r \in {ParseText(t) : t \in {s}} : TRUE

RECURSIVE QuoteChars(_)
\* The characters of s with the special ones escaped
QuoteChars(s) ==
    LET e == PlainEnd(s, 1)
    IN IF e > Len(s) THEN s
       ELSE SubSeq(s, 1, e - 1)
            \o (CASE s[e] = "\"" -> <<"\\", "\"">>
                   [] s[e] = "\\" -> <<"\\", "\\">>
                   [] s[e] = "\n" -> <<"\\", "n">>
                   [] s[e] = "\t" -> <<"\\", "t">>
                   [] s[e] = "\r" -> <<"\\", "r">>)
            \o QuoteChars(SubSeq(s, e + 1, Len(s)))

\* JSON.stringify of a string
Quote(s) == <<"\"">> \o QuoteChars(s) \o <<"\"">>

Spaces(n) == [i \in 1..n |-> " "]

RECURSIVE Stringify(_, _, _)
RECURSIVE StringifyItems(_, _, _, _)

\* JSON.stringify(x, null, gap) at nesting depth `depth`; gap = 0 is the
\* compact form JSON.stringify(x).
Stringify(x, gap, depth) ==
    CASE x.t = "null" -> <<"n", "u", "l", "l">>
      [] x.t = "bool" -> IF x.v THEN <<"t", "r", "u", "e">> ELSE <<"f", "a", "l", "s", "e">>
      [] x.t = "num" -> IntToStr(x.v)
      [] x.t = "str" -> Quote(x.v)
      [] x.t = "arr" ->
            IF x.v = <<>> THEN <<"[", "]">>
            ELSE <<"[">> \o StringifyItems(x, gap, depth + 1, 1) \o <<"]">>
      [] x.t = "obj" ->
            IF x.v = <<>> THEN <<"{", "}">>
            ELSE <<"{">> \o StringifyItems(x, gap, depth + 1, 1) \o <<"}">>

\* The items of array or object x from the i-th on, each on a line of its own
\* when gap > 0, followed by the line break before the closing bracket.
StringifyItems(x, gap, depth, i) ==
    LET lead == IF gap > 0 THEN <<"\n">> \o Spaces(gap * depth) ELSE <<>>
        item == IF x.t = "arr"
                THEN Stringify(x.v[i], gap, depth)
                ELSE Quote(x.v[i][1]) \o (IF gap > 0 THEN <<":", " ">> ELSE <<":">>)
                       \o Stringify(x.v[i][2], gap, depth)
    IN IF i = Len(x.v)
       THEN lead \o item \o (IF gap > 0 THEN <<"\n">> \o Spaces(gap * (depth - 1)) ELSE <<>>)
       ELSE lead \o item \o <<",">> \o StringifyItems(x, gap, depth, i + 1)

\* JSON.stringify(x, null, 2)
JSONstringify(x) == Stringify(x, 2, 0)

(***************************************************************************)
(* VisualMapping: extraction of the schema's leaf paths                    *)
(***************************************************************************)
ObjectStr == <<"o", "b", "j", "e", "c", "t">>
TypeKey == <<"t", "y", "p", "e">>
PropertiesKey == <<"p", "r", "o", "p", "e", "r", "t", "i", "e", "s">>

\* x.type === 'object' && x.properties, for x neither null nor undefined
IsObjectSchema(x) == GetProp(x, TypeKey) = JStr(ObjectStr) /\ Truthy(GetProp(x, PropertiesKey))

\* `${prefix}.${key}` when prefix is a non-empty string, else key
JoinPath(prefix, key) == IF prefix # <<>> THEN prefix \o <<".">> \o key ELSE key

Threw == [threw |-> TRUE, fields |-> <<>>]

Returned(fields) == [threw |-> FALSE, fields |-> fields]

RECURSIVE extractFields(_, _)
RECURSIVE ExtractKeys(_, _, _, _)

\* extractFields(obj, prefix): threw is TRUE where the call ends in a TypeError
\* (property.type read on a null property).
extractFields(obj, prefix) ==
    CHOOSE out \in {IF Truthy(o) /\ TypeofObject(o) /\ IsObjectSchema(o)
                    THEN ExtractKeys(GetProp(o, PropertiesKey), p, 1, <<>>)
                    ELSE Returned(<<>>) : o \in {obj}, p \in {prefix}} : TRUE

\* The callback of the forEach, on the i-th key, and the rest of the forEach
ExtractKey(properties, prefix, i, fields, currentPath, property) ==
    IF property.t \in {"null", "undefined"} THEN Threw
    ELSE IF IsObjectSchema(property)
    THEN CHOOSE out \in {IF sub.threw THEN Threw
                         ELSE ExtractKeys(properties, prefix, i + 1, fields \o sub.fields) :
                             sub \in {extractFields(property, currentPath)}} : TRUE
    ELSE ExtractKeys(properties, prefix, i + 1, Append(fields, currentPath))

\* The forEach over Object.keys(obj.properties), from the i-th key on.
ExtractKeys(properties, prefix, i, fields) ==
    CHOOSE out \in {IF n > Len(keys) THEN Returned(f)
                    ELSE CHOOSE o \in {ExtractKey(ps, p, n, f, currentPath, property) :
                                          currentPath \in {JoinPath(p, keys[n])},
                                          property \in {GetProp(ps, keys[n])}} : TRUE :
                        ps \in {properties}, p \in {prefix}, n \in {i}, f \in {fields},
                        keys \in {ObjectKeys(properties)}} : TRUE

(***************************************************************************)
(* SchemaBuilder: the property tree and the schema generated from it       *)
(***************************************************************************)
StringStr == <<"s", "t", "r", "i", "n", "g">>
NumberStr == <<"n", "u", "m", "b", "e", "r">>
IntegerStr == <<"i", "n", "t", "e", "g", "e", "r">>
ShortStr == <<"s", "h", "o", "r", "t">>
BooleanStr == <<"b", "o", "o", "l", "e", "a", "n">>

\* The values of the type select
PropertyTypes == {StringStr, NumberStr, IntegerStr, ShortStr, BooleanStr, ObjectStr}

RECURSIVE generateJsonSchema(_)
RECURSIVE GenerateProps(_, _, _)

\* generateJsonSchema(props): { type: 'object', properties: {...} }
generateJsonSchema(props) ==
    JObj(<< <<TypeKey, JStr(ObjectStr)>>, <<PropertiesKey, JObj(GenerateProps(props, 1, <<>>))>> >>)

\* The forEach over props from the i-th on; acc is schema.properties so far.
GenerateProps(props, i, acc) ==
    IF i > Len(props) THEN acc
    ELSE LET prop == props[i]
         IN IF prop.name = <<>> THEN GenerateProps(props, i + 1, acc)
            ELSE IF prop.type = ObjectStr
            THEN GenerateProps(props, i + 1,
                     AssignProp(acc, prop.name,
                         JObj(DefineProp(DefineProp(<< <<TypeKey, JStr(ObjectStr)>> >>,
                                                    TypeKey, JStr(ObjectStr)),
                                         PropertiesKey,
                                         GetProp(generateJsonSchema(prop.properties), PropertiesKey)))))
            ELSE GenerateProps(props, i + 1,
                     AssignProp(acc, prop.name, JObj(<< <<TypeKey, JStr(prop.type)>> >>)))

(***************************************************************************)
(* State                                                                   *)
(***************************************************************************)
VARIABLES
    schema,             \* ApiSpecInput: the text of the schema textarea
    className,          \* ApiSpecInput: the text of the class name input
    isLoading,          \* ApiSpecInput: a generateDTOs call is running
    isValid,            \* ApiSpecInput: null | true | false
    dtoCalls,           \* generateDTOs calls suspended at an await, oldest first
    pageSchema,         \* Index: the submitted (parsed) schema, null at first
    pageClassName,      \* Index: the submitted class name
    pageFieldMapping,   \* Index: the mapping last reported by VisualMapping
    pageDefaults,       \* Index: the defaults last reported by VisualMapping
    fieldMapping,       \* VisualMapping: base field -> schema path
    defaults,           \* VisualMapping: base field -> default value
    schemaFields,       \* VisualMapping: the paths offered by each select
    preview,            \* GeneratedOutput: the constructor preview lines
    isLoadingPreview,   \* GeneratedOutput: a previewMapping call is running
    isLoadingRegister,  \* GeneratedOutput: a registerMapping call is running
    isLoadingGenerate,  \* GeneratedOutput: a generateB2BClass call is running
    calls,              \* GeneratedOutput calls suspended at an await: shape -> count
    crashed,            \* an exception escaped a render or an effect
    ev,                 \* what the last step did: toasts, submits, requests
    properties,         \* SchemaBuilder: the property tree
    nextId              \* SchemaBuilder: the ids generateId has handed out, plus one

inputVars == <<schema, className, isLoading, isValid, dtoCalls>>
pageVars == <<pageSchema, pageClassName, pageFieldMapping, pageDefaults>>
mappingVars == <<fieldMapping, defaults, schemaFields>>
outputVars == <<preview, isLoadingPreview, isLoadingRegister, isLoadingGenerate, calls>>
builderVars == <<properties, nextId>>
vars == <<inputVars, pageVars, mappingVars, outputVars, builderVars, crashed, ev>>

(***************************************************************************)
(* Bounds and the inputs explored                                          *)
(***************************************************************************)
\* GeneratedOutput calls that may be suspended at once (orphans of an unmounted
\* instance included).
MaxCalls == 3

\* Base fields that may be mapped at once.
MaxMapped == 2

EmptyText == <<>>
BlankText == <<" ", "NBSP">>
BrokenText == <<"{", "\"", "t", "y", "p", "e", "\"", ":">>
ZeroText == <<"0">>
SchemaText ==
    <<"{", "\"", "t", "y", "p", "e", "\"", ":", "\"", "o", "b", "j", "e", "c", "t", "\"", ",", "\"", "p", "r", "o", "p", "e", "r", "t", "i", "e", "s", "\"", ":", "{", "\"", "a", "\"", ":", "{", "\"", "t", "y", "p", "e", "\"", ":", "\"", "s", "t", "r", "i", "n", "g", "\"", "}", ",", "\"", "o", "\"", ":", "{", "\"", "t", "y", "p", "e", "\"", ":", "\"", "o", "b", "j", "e", "c", "t", "\"", ",", "\"", "p", "r", "o", "p", "e", "r", "t", "i", "e", "s", "\"", ":", "{", "\"", "b", "\"", ":", "{", "\"", "t", "y", "p", "e", "\"", ":", "\"", "n", "u", "m", "b", "e", "r", "\"", "}", "}", "}", "}", "}">>

\* What the user types or pastes into the schema textarea, or uploads.
SchemaTexts == {EmptyText, BlankText, BrokenText, ZeroText, SchemaText}

\* What the user types into the class name input.
ClassNames == {<<>>, <<"A", "b">>}

\* The texts and the class name typed while the whole page is explored.
PageTexts == {ZeroText, SchemaText}
PageNames == {<<"A", "b">>}

(***************************************************************************)
(* Side effects of a step                                                  *)
(***************************************************************************)
Toast(title, variant) == [title |-> title, variant |-> variant]

Effects(op, kind, toasts, submits, requests) ==
    [op |-> op, kind |-> kind, toasts |-> toasts, submits |-> submits, requests |-> requests,
     clipboard |-> <<>>]

\* A step that shows no toast, submits nothing and sends nothing.
Quiet == Effects("none", "none", <<>>, <<>>, <<>>)

Request(kind, url, body) == [kind |-> kind, url |-> url, body |-> body]

(***************************************************************************)
(* Index                                                                   *)
(***************************************************************************)
Kinds == {"preview", "register", "generate"}

\* A suspended GeneratedOutput call: which handler, the await it is at, and
\* whether the instance that made it is still mounted.  registerMapping awaits
\* only its fetch.
CallShapes ==
    {c \in [kind : Kinds, phase : {"fetch", "json"}, live : BOOLEAN] :
        c.kind = "register" => c.phase = "fetch"}

NoCalls == [c \in CallShapes |-> 0]

\* `schema && (...)`: VisualMapping and GeneratedOutput are rendered.
Mounted == Truthy(pageSchema)

\* A GeneratedOutput instance that unmounts leaves its suspended calls running;
\* their state updates no longer reach any instance.
Orphaned(cs) ==
    [c \in CallShapes |->
        IF c.live THEN 0 ELSE cs[c] + cs[[c EXCEPT !.live = TRUE]]]

\* handleSchemaSubmit(submittedSchema, submittedClassName), the render that
\* follows and the effects of the components it mounts: VisualMapping extracts
\* the schema's fields and reports its mapping to Index.
handleSchemaSubmit(submitted, submittedClassName) ==
    \E submittedSchema \in {submitted} :
    \E extraction \in {extractFields(submittedSchema, <<>>)} :
       /\ pageSchema' = submittedSchema
       /\ pageClassName' = submittedClassName
       /\ IF ~Truthy(submittedSchema)
          THEN /\ fieldMapping' = <<>>
               /\ defaults' = <<>>
               /\ schemaFields' = <<>>
               /\ preview' = JArr(<<>>)
               /\ isLoadingPreview' = FALSE
               /\ isLoadingRegister' = FALSE
               /\ isLoadingGenerate' = FALSE
               /\ calls' = Orphaned(calls)
               /\ UNCHANGED <<pageFieldMapping, pageDefaults, crashed>>
          ELSE IF extraction.threw
          THEN /\ crashed' = TRUE
               /\ calls' = Orphaned(calls)
               /\ UNCHANGED <<pageFieldMapping, pageDefaults, mappingVars, preview,
                              isLoadingPreview, isLoadingRegister, isLoadingGenerate>>
          ELSE IF Mounted
          THEN /\ schemaFields' = extraction.fields
               /\ UNCHANGED <<pageFieldMapping, pageDefaults, fieldMapping, defaults,
                              outputVars, crashed>>
          ELSE /\ schemaFields' = extraction.fields
               /\ fieldMapping' = <<>>
               /\ defaults' = <<>>
               /\ pageFieldMapping' = <<>>
               /\ pageDefaults' = <<>>
               /\ UNCHANGED <<outputVars, crashed>>

(***************************************************************************)
(* ApiSpecInput                                                            *)
(***************************************************************************)
\* A validation that does not look for a blank text first
validateJsonUntrimmed(jsonString) ==
    IF JSONparse(jsonString).ok THEN JBool(TRUE) ELSE JBool(FALSE)

\* validateJson(jsonString): the value it leaves in isValid
validateJson(jsonString) ==
    IF trim(jsonString) = <<>> THEN JNull
    ELSE IF JSONparse(jsonString).ok THEN JBool(TRUE)
    ELSE JBool(FALSE)

\* handleSchemaChange(value): the textarea's onChange
handleSchemaChange(value) ==
    /\ ~crashed
    /\ schema' = value
    /\ isValid' = validateJson(value)
    /\ ev' = Quiet
    /\ UNCHANGED <<className, isLoading, dtoCalls, pageVars, mappingVars, outputVars,
                   builderVars, crashed>>

\* reader.onload of handleFileUpload: the chosen file has been read
handleFileUpload(content) ==
    /\ ~crashed
    /\ schema' = content
    /\ isValid' = validateJson(content)
    /\ ev' = Quiet
    /\ UNCHANGED <<className, isLoading, dtoCalls, pageVars, mappingVars, outputVars,
                   builderVars, crashed>>

\* setClassName(e.target.value): the class name input's onChange
setClassName(value) ==
    /\ ~crashed
    /\ className' = value
    /\ ev' = Quiet
    /\ UNCHANGED <<schema, isLoading, isValid, dtoCalls, pageVars, mappingVars, outputVars,
                   builderVars, crashed>>

\* beautifyJson, from the Beautify button (disabled while the text is blank)
beautifyJson ==
    /\ ~crashed
    /\ trim(schema) # <<>>
    /\ LET parsed == JSONparse(schema)
       IN IF parsed.ok
          THEN /\ schema' = JSONstringify(parsed.val)
               /\ isValid' = JBool(TRUE)
               /\ ev' = Effects("beautify", "none", <<Toast("JSON Beautified", "default")>>, <<>>, <<>>)
          ELSE /\ ev' = Effects("beautify", "none", <<Toast("Invalid JSON", "destructive")>>, <<>>, <<>>)
               /\ UNCHANGED <<schema, isValid>>
    /\ UNCHANGED <<className, isLoading, dtoCalls, pageVars, mappingVars, outputVars,
                   builderVars, crashed>>

\* An early return that does not look at the class name
GenerateDTOsGuardNoName == schema # <<>> /\ Truthy(isValid)

\* The early return of generateDTOs: !schema || !className || !isValid
GenerateDTOsGuard == schema # <<>> /\ className # <<>> /\ Truthy(isValid)

\* disabled={!schema || !className || !isValid || isLoading}
GenerateDTOsDisabled == ~(schema # <<>> /\ className # <<>> /\ Truthy(isValid)) \/ isLoading

DtoUrl == <<"h", "t", "t", "p", ":", "/", "/", "l", "o", "c", "a", "l", "h", "o", "s", "t", ":", "8", "0", "8", "3", "/", "a", "p", "i", "/", "d", "t", "o", "/", "g", "e", "n", "e", "r", "a", "t", "e", "?", "c", "l", "a", "s", "s", "N", "a", "m", "e", "=">>

\* The catch block of generateDTOs: the toast, then the fallback submit of the
\* schema text the call was made with.
DtoCatch(call) ==
    LET parsed == JSONparse(call.schema)
    IN IF parsed.ok
       THEN [toasts |-> <<Toast("Generation Failed", "destructive")>>,
             submits |-> << [schema |-> parsed.val, className |-> call.className] >>]
       ELSE [toasts |-> <<Toast("Generation Failed", "destructive"),
                          Toast("Invalid Schema", "destructive")>>,
             submits |-> <<>>]

\* An end of generateDTOs that clears the loading flag on the success path only
DtoSettleSuccessOnly(i, op, outcome) ==
    /\ dtoCalls' = SubSeq(dtoCalls, 1, i - 1) \o SubSeq(dtoCalls, i + 1, Len(dtoCalls))
    /\ isLoading' = (op # "ok" /\ isLoading)
    /\ ev' = Effects(op, "dto", outcome.toasts, outcome.submits, <<>>)
    /\ IF outcome.submits = <<>>
       THEN UNCHANGED <<pageVars, mappingVars, outputVars, crashed>>
       ELSE handleSchemaSubmit(outcome.submits[1].schema, outcome.submits[1].className)
    /\ UNCHANGED <<schema, className, isValid, builderVars>>

\* A generateDTOs call runs to its end: its toasts and submit, then `finally`.
DtoSettle(i, op, result) ==
    \E outcome \in {result} :
        /\ dtoCalls' = SubSeq(dtoCalls, 1, i - 1) \o SubSeq(dtoCalls, i + 1, Len(dtoCalls))
        /\ isLoading' = FALSE
        /\ ev' = Effects(op, "dto", outcome.toasts, outcome.submits, <<>>)
        /\ IF outcome.submits = <<>>
           THEN UNCHANGED <<pageVars, mappingVars, outputVars, crashed>>
           ELSE handleSchemaSubmit(outcome.submits[1].schema, outcome.submits[1].className)
        /\ UNCHANGED <<schema, className, isValid, builderVars>>

\* generateDTOs up to its first await: the early return, or the loading flag
\* and the fetch
GenerateDTOsHandler ==
    /\ IF ~GenerateDTOsGuard
       THEN /\ ev' = Effects("generateDTOs", "dto", <<>>, <<>>, <<>>)
            /\ UNCHANGED <<inputVars, pageVars, mappingVars, outputVars, crashed>>
       ELSE LET call == [schema |-> schema, className |-> className, phase |-> "fetch"]
                parsedSchema == JSONparse(schema)
            IN IF parsedSchema.ok
               THEN /\ isLoading' = TRUE
                    /\ dtoCalls' = Append(dtoCalls, call)
                    /\ ev' = Effects("generateDTOs", "dto", <<>>, <<>>,
                                     <<Request("dto", DtoUrl \o className,
                                               Stringify(parsedSchema.val, 0, 0))>>)
                    /\ UNCHANGED <<schema, className, isValid, pageVars, mappingVars,
                                   outputVars, crashed>>
               ELSE /\ isLoading' = FALSE
                    /\ ev' = Effects("generateDTOs", "dto", DtoCatch(call).toasts,
                                     DtoCatch(call).submits, <<>>)
                    /\ UNCHANGED <<schema, className, isValid, dtoCalls, pageVars,
                                   mappingVars, outputVars, crashed>>
    /\ UNCHANGED builderVars

\* generateDTOs, from the Generate DTOs button
generateDTOs ==
    /\ ~crashed
    /\ ~GenerateDTOsDisabled
    /\ GenerateDTOsHandler

\* What response.json() of the DTO endpoint may resolve to.
DtoResults == {JObj(<< <<<<"m", "e", "s", "s", "a", "g", "e">>, JStr(<<"o", "k">>)>> >>), JObj(<<>>), JNull}

\* fetch resolves: with response.ok the call goes on to await response.json(),
\* otherwise it throws into the catch block.
DtoFetchResolves(i, ok) ==
    /\ ~crashed
    /\ i \in 1..Len(dtoCalls)
    /\ dtoCalls[i].phase = "fetch"
    /\ IF ok
       THEN /\ dtoCalls' = [dtoCalls EXCEPT ![i].phase = "json"]
            /\ ev' = Quiet
            /\ UNCHANGED <<schema, className, isLoading, isValid, pageVars, mappingVars,
                           outputVars, builderVars, crashed>>
       ELSE DtoSettle(i, "notOk", DtoCatch(dtoCalls[i]))

\* fetch rejects (network error)
DtoFetchRejects(i) ==
    /\ ~crashed
    /\ i \in 1..Len(dtoCalls)
    /\ dtoCalls[i].phase = "fetch"
    /\ DtoSettle(i, "rejected", DtoCatch(dtoCalls[i]))

\* A success path that shows its toast and does not call onSchemaSubmit
DtoJsonResolvesNoSubmit(i, result) ==
    /\ ~crashed
    /\ i \in 1..Len(dtoCalls)
    /\ dtoCalls[i].phase = "json"
    /\ IF result.t = "null"
       THEN DtoSettle(i, "badBody", DtoCatch(dtoCalls[i]))
       ELSE DtoSettle(i, "ok", [toasts |-> <<Toast("DTOs Generated", "default")>>,
                                submits |-> <<>>])

\* response.json() resolves: reading result.message of null throws into the
\* catch block; otherwise the success toast and the submit of the parsed schema.
DtoJsonResolves(i, result) ==
    /\ ~crashed
    /\ i \in 1..Len(dtoCalls)
    /\ dtoCalls[i].phase = "json"
    /\ IF result.t = "null"
       THEN DtoSettle(i, "badBody", DtoCatch(dtoCalls[i]))
       ELSE DtoSettle(i, "ok",
                [toasts |-> <<Toast("DTOs Generated", "default")>>,
                 submits |-> << [schema |-> JSONparse(dtoCalls[i].schema).val,
                                 className |-> dtoCalls[i].className] >>])

\* response.json() rejects (the body is not JSON)
DtoJsonRejects(i) ==
    /\ ~crashed
    /\ i \in 1..Len(dtoCalls)
    /\ dtoCalls[i].phase = "json"
    /\ DtoSettle(i, "badBody", DtoCatch(dtoCalls[i]))

(***************************************************************************)
(* VisualMapping                                                           *)
(***************************************************************************)
\* The names of BASE_REQUEST_FIELDS, in order
BASE_REQUEST_FIELDS ==
    << <<"s", "o", "u", "r", "c", "e", "L", "o", "c", "a", "t", "i", "o", "n", ".", "l", "a", "t">>, <<"s", "o", "u", "r", "c", "e", "L", "o", "c", "a", "t", "i", "o", "n", ".", "l", "n", "g">>, <<"s", "o", "u", "r", "c", "e", "L", "o", "c", "a", "t", "i", "o", "n", ".", "n", "a", "m", "e">>,
       <<"s", "o", "u", "r", "c", "e", "L", "o", "c", "a", "t", "i", "o", "n", ".", "p", "o", "s", "t", "c", "o", "d", "e">>, <<"c", "u", "r", "r", "e", "n", "t", "L", "o", "c", "a", "t", "i", "o", "n", ".", "l", "a", "t">>, <<"c", "u", "r", "r", "e", "n", "t", "L", "o", "c", "a", "t", "i", "o", "n", ".", "l", "n", "g">>,
       <<"d", "e", "s", "t", "i", "n", "a", "t", "i", "o", "n", "L", "o", "c", "a", "t", "i", "o", "n", ".", "a", "d", "d", "r", "e", "s", "s">>, <<"u", "s", "e", "r", "T", "y", "p", "e">> >>

BaseFields == {BASE_REQUEST_FIELDS[i] : i \in 1..Len(BASE_REQUEST_FIELDS)}

USE_DEFAULT == <<"U", "S", "E", "_", "D", "E", "F", "A", "U", "L", "T">>

\* What the user types into a default value input.
DefaultTexts == {<<>>, <<"x">>, <<"5">>}

\* delete obj[k]
DeleteProp(pairs, k) ==
    IF HasKey(pairs, k)
    THEN SubSeq(pairs, 1, KeyPos(pairs, k) - 1) \o SubSeq(pairs, KeyPos(pairs, k) + 1, Len(pairs))
    ELSE pairs

\* The effect that follows every change of fieldMapping or defaults:
\* onMappingChange(fieldMapping, defaults), which is Index's handleMappingChange.
onMappingChange ==
    /\ pageFieldMapping' = fieldMapping'
    /\ pageDefaults' = defaults'

\* handleFieldMapping(baseField, apiField)
handleFieldMapping(baseField, apiField) ==
    /\ IF apiField = USE_DEFAULT
       THEN /\ fieldMapping' = DeleteProp(fieldMapping, baseField)
            /\ UNCHANGED defaults
       ELSE /\ fieldMapping' = DefineProp(fieldMapping, baseField, JStr(apiField))
            /\ defaults' = DeleteProp(defaults, baseField)
    /\ onMappingChange

\* handleDefaultValue(baseField, value)
handleDefaultValue(baseField, value) ==
    /\ defaults' = DefineProp(defaults, baseField, JStr(value))
    /\ UNCHANGED fieldMapping
    /\ onMappingChange

\* clearMapping(baseField)
clearMapping(baseField) ==
    /\ fieldMapping' = DeleteProp(fieldMapping, baseField)
    /\ defaults' = DeleteProp(defaults, baseField)
    /\ onMappingChange

\* The controls VisualMapping renders for a base field: the select always, the
\* default value input when defaults.hasOwnProperty(field.name), the clear
\* button when fieldMapping[field.name] || defaults[field.name].
RenderedControls(baseField) ==
    {"select"}
    \cup (IF HasKey(defaults, baseField) THEN {"defaultInput"} ELSE {})
    \cup (IF Truthy(GetProp(JObj(fieldMapping), baseField))
             \/ Truthy(GetProp(JObj(defaults), baseField))
          THEN {"clear"} ELSE {})

\* The values of the select's items: 'USE_DEFAULT' and the schema's fields
SelectItems == {USE_DEFAULT} \cup {schemaFields[i] : i \in 1..Len(schemaFields)}

\* The user operates one rendered control of one base field.  The handler is
\* chosen by the control, as the JSX wires them: onValueChange, onChange, onClick.
VisualMappingEvent(baseField, control, value) ==
    /\ ~crashed
    /\ Mounted
    /\ control \in RenderedControls(baseField)
    /\ IF control = "select"
       THEN /\ value \in SelectItems
            /\ handleFieldMapping(baseField, value)
       ELSE IF control = "defaultInput"
       THEN /\ value \in DefaultTexts
            /\ handleDefaultValue(baseField, value)
       ELSE /\ value = <<>>
            /\ clearMapping(baseField)
    /\ Len(fieldMapping') <= MaxMapped
    /\ ev' = Quiet
    /\ UNCHANGED <<inputVars, pageSchema, pageClassName, schemaFields, outputVars,
                   builderVars, crashed>>

(***************************************************************************)
(* GeneratedOutput                                                         *)
(***************************************************************************)
\* Number(s) for the strings of the modelled alphabet: optional whitespace
\* around an optionally signed run of digits ("" is 0); anything else is NaN.
ToNumber(s) ==
    LET t == trim(s)
        signed == t # <<>> /\ t[1] \in {"+", "-"}
        d == IF signed THEN Tail(t) ELSE t
    IN IF t = <<>> THEN [nan |-> FALSE, val |-> 0]
       ELSE IF d # <<>> /\ \A i \in 1..Len(d) : IsDigit(d[i])
       THEN [nan |-> FALSE, val |-> IF t[1] = "-" THEN -StrToNat(d) ELSE StrToNat(d)]
       ELSE [nan |-> TRUE, val |-> 0]

\* parseFloat(s) for the same alphabet: the longest optionally signed run of
\* digits after leading whitespace; NaN when there is none.
parseFloat(s) ==
    LET t == TrimLeft(s)
        signed == t # <<>> /\ t[1] \in {"+", "-"}
        d == IF signed THEN Tail(t) ELSE t
        e == DigitsEnd(d, 1)
    IN IF e = 1 THEN [nan |-> TRUE, val |-> 0]
       ELSE [nan |-> FALSE,
             val |-> IF t[1] = "-" THEN -StrToNat(SubSeq(d, 1, e - 1))
                                   ELSE StrToNat(SubSeq(d, 1, e - 1))]

\* A parseValue that hands every string to JSON.parse first
parseValueAnyJson(value) ==
    IF value.t # "str" THEN value
    ELSE IF JSONparse(value.v).ok THEN JSONparse(value.v).val
    ELSE IF ~ToNumber(value.v).nan /\ ~parseFloat(value.v).nan
    THEN JNum(ToNumber(value.v).val)
    ELSE value

\* parseValue(value)
parseValue(value) ==
    IF value.t # "str" THEN value
    ELSE IF value.v = <<"t", "r", "u", "e">> THEN JBool(TRUE)
    ELSE IF value.v = <<"f", "a", "l", "s", "e">> THEN JBool(FALSE)
    ELSE IF value.v = <<"n", "u", "l", "l">> THEN JNull
    ELSE IF startsWith(value.v, <<"[">>) /\ endsWith(value.v, <<"]">>)
    THEN IF JSONparse(value.v).ok THEN JSONparse(value.v).val ELSE value
    ELSE IF startsWith(value.v, <<"{">>) /\ endsWith(value.v, <<"}">>)
    THEN IF JSONparse(value.v).ok THEN JSONparse(value.v).val ELSE value
    ELSE IF ~ToNumber(value.v).nan /\ ~parseFloat(value.v).nan
    THEN JNum(ToNumber(value.v).val)
    ELSE value

UpperCase == <<"A", "B", "C", "D", "E", "F", "G", "H", "I", "J", "K", "L", "M", "N", "O", "P", "Q", "R", "S", "T", "U", "V", "W", "X", "Y", "Z">>
LowerCase == <<"a", "b", "c", "d", "e", "f", "g", "h", "i", "j", "k", "l", "m", "n", "o", "p", "q", "r", "s", "t", "u", "v", "w", "x", "y", "z">>

\* String.prototype.toLowerCase
toLowerCase(s) ==
    [i \in 1..Len(s) |->
        IF \E j \in 1..Len(UpperCase) : UpperCase[j] = s[i]
        THEN LowerCase[CHOOSE j \in 1..Len(UpperCase) : UpperCase[j] = s[i]]
        ELSE s[i]]

\* s.replace(/request$/, '')
ReplaceRequestSuffix(s) ==
    IF endsWith(s, <<"r", "e", "q", "u", "e", "s", "t">>) THEN SubSeq(s, 1, Len(s) - 7) ELSE s

CurrentLat == <<"c", "u", "r", "r", "e", "n", "t", "L", "o", "c", "a", "t", "i", "o", "n", ".", "l", "a", "t">>
CurrentLng == <<"c", "u", "r", "r", "e", "n", "t", "L", "o", "c", "a", "t", "i", "o", "n", ".", "l", "n", "g">>

\* { ...target, ...source }: the own properties of source copied in order
RECURSIVE Spread(_, _)
Spread(target, source) ==
    IF source = <<>> THEN target
    ELSE Spread(DefineProp(target, source[1][1], source[1][2]), Tail(source))

\* A spread that leaves a key alone when the mapping already has it
SpreadParsedKeepsMapping(target, d, k) ==
    IF GetProp(JObj(d), k) # Undefined /\ ~HasKey(target, k)
    THEN DefineProp(target, k, parseValue(GetProp(JObj(d), k)))
    ELSE target

\* ...(d[k] !== undefined && { [k]: parseValue(d[k]) })
SpreadParsed(target, d, k) ==
    IF GetProp(JObj(d), k) # Undefined
    THEN DefineProp(target, k, parseValue(GetProp(JObj(d), k)))
    ELSE target

\* Object.fromEntries(Object.entries(d).filter(...).map(...)) of configJson.defaults
RECURSIVE ConfigDefaults(_, _)
ConfigDefaults(d, acc) ==
    IF d = <<>> THEN acc
    ELSE IF d[1][1] # CurrentLat /\ d[1][1] # CurrentLng
    THEN ConfigDefaults(Tail(d), DefineProp(acc, d[1][1], parseValue(d[1][2])))
    ELSE ConfigDefaults(Tail(d), acc)

\* A b2bName that removes the suffix before lower-casing
B2bNameSuffixFirst(name) == toLowerCase(ReplaceRequestSuffix(name))

\* configJson.b2bName
B2bName(name) == ReplaceRequestSuffix(toLowerCase(name))

\* configJson.requestClass
RequestClass(name) == <<"c", "o", "m", ".", "e", "x", "a", "m", "p", "l", "e", ".", "d", "e", "m", "o", "V", "e", "r", "s", "i", "o", "n", ".", "d", "t", "o", ".">> \o name

\* configJson, from the props className, fieldMapping and defaults
ConfigJson(name, mapping, defs) ==
    JObj(<< <<<<"b", "2", "b", "N", "a", "m", "e">>, JStr(B2bName(name))>>,
            <<<<"r", "e", "q", "u", "e", "s", "t", "C", "l", "a", "s", "s">>, JStr(RequestClass(name))>>,
            <<<<"f", "i", "e", "l", "d", "M", "a", "p", "p", "i", "n", "g">>,
              JObj(SpreadParsed(SpreadParsed(Spread(<<>>, mapping), defs, CurrentLat),
                                defs, CurrentLng))>>,
            <<<<"d", "e", "f", "a", "u", "l", "t", "s">>, JObj(ConfigDefaults(defs, <<>>))>> >>)

\* configJson of the current render
configJson == ConfigJson(pageClassName, pageFieldMapping, pageDefaults)

\* A hasMapping that asks for both a mapping and a default
hasMappingBoth == Len(pageFieldMapping) > 0 /\ Len(pageDefaults) > 0

\* hasMapping
hasMapping == Len(pageFieldMapping) > 0 \/ Len(pageDefaults) > 0

PreviewUrl == <<"h", "t", "t", "p", ":", "/", "/", "l", "o", "c", "a", "l", "h", "o", "s", "t", ":", "8", "0", "8", "3", "/", "b", "2", "b", "/", "p", "r", "e", "v", "i", "e", "w">>
RegisterUrl == <<"h", "t", "t", "p", ":", "/", "/", "l", "o", "c", "a", "l", "h", "o", "s", "t", ":", "8", "0", "8", "3", "/", "b", "2", "b", "/", "r", "e", "g", "i", "s", "t", "e", "r">>
GenerateUrl == <<"h", "t", "t", "p", ":", "/", "/", "l", "o", "c", "a", "l", "h", "o", "s", "t", ":", "8", "0", "8", "3", "/", "b", "2", "b", "/", "g", "e", "n", "e", "r", "a", "t", "e", "/">>

\* The loading flag of each kind of call
Loading(kind) ==
    CASE kind = "preview" -> isLoadingPreview
      [] kind = "register" -> isLoadingRegister
      [] kind = "generate" -> isLoadingGenerate

\* disabled={!hasMapping || isLoading...} of each action button
ButtonDisabled(kind) == ~hasMapping \/ Loading(kind)

\* The request each handler hands to fetch
FetchOf(kind) ==
    CASE kind = "preview" -> Request("preview", PreviewUrl, Stringify(configJson, 0, 0))
      [] kind = "register" -> Request("register", RegisterUrl, Stringify(configJson, 0, 0))
      [] kind = "generate" ->
            Request("generate", GenerateUrl \o GetProp(configJson, <<"b", "2", "b", "N", "a", "m", "e">>).v,
                    Stringify(JObj(<<>>), 0, 0))

\* setIsLoading...(value) of the instance the call belongs to; a call of an
\* unmounted instance changes nothing
SetLoading(kind, value, live) ==
    /\ isLoadingPreview' = IF live /\ kind = "preview" THEN value ELSE isLoadingPreview
    /\ isLoadingRegister' = IF live /\ kind = "register" THEN value ELSE isLoadingRegister
    /\ isLoadingGenerate' = IF live /\ kind = "generate" THEN value ELSE isLoadingGenerate

RECURSIVE SumCalls(_, _)
SumCalls(cs, shapes) ==
    IF shapes = {} THEN 0
    ELSE LET c == CHOOSE x \in shapes : TRUE
         IN cs[c] + SumCalls(cs, shapes \ {c})

\* The number of suspended calls
CallCount(cs) == SumCalls(cs, CallShapes)

\* The number of suspended calls of one handler
InFlight(kind) == SumCalls(calls, {c \in CallShapes : c.kind = kind})

\* A handler from its button's click up to its first await: the loading flag,
\* then the fetch
StartCall(kind, op) ==
    /\ ~crashed
    /\ Mounted
    /\ ~ButtonDisabled(kind)
    /\ CallCount(calls) < MaxCalls
    /\ SetLoading(kind, TRUE, TRUE)
    /\ calls' = [calls EXCEPT ![[kind |-> kind, phase |-> "fetch", live |-> TRUE]] = @ + 1]
    /\ ev' = Effects(op, kind, <<>>, <<>>, <<FetchOf(kind)>>)
    /\ UNCHANGED <<inputVars, pageVars, mappingVars, preview, builderVars, crashed>>

\* previewMapping, from the Preview Mapping button
previewMapping == StartCall("preview", "previewMapping")

\* registerMapping, from the Register Mapping button
registerMapping == StartCall("register", "registerMapping")

\* generateB2BClass, from the Generate B2B Class button
generateB2BClass == StartCall("generate", "generateB2BClass")

\* copyToClipboard, from the Copy button: the displayed configuration is
\* written to the clipboard (navigator.clipboard is present, and nothing
\* awaits the promise of writeText) and the 'Copied!' toast is shown
copyToClipboard ==
    /\ ~crashed
    /\ Mounted
    /\ ev' = [Effects("copyToClipboard", "none", <<Toast("Copied!", "default")>>, <<>>, <<>>)
                 EXCEPT !.clipboard = <<JSONstringify(configJson)>>]
    /\ UNCHANGED <<inputVars, pageVars, mappingVars, outputVars, builderVars, crashed>>

SuccessToast(kind) ==
    CASE kind = "preview" -> Toast("Preview Generated", "default")
      [] kind = "register" -> Toast("Mapping Registered", "default")
      [] kind = "generate" -> Toast("B2B Class Generated", "default")

FailureToast(kind) ==
    CASE kind = "preview" -> Toast("Preview Failed", "destructive")
      [] kind = "register" -> Toast("Registration Failed", "destructive")
      [] kind = "generate" -> Toast("Generation Failed", "destructive")

\* An end of a call that sends the request again when the call failed
SettleRetrying(c, op, toast) ==
    /\ SetLoading(c.kind, FALSE, c.live /\ op = "ok")
    /\ calls' = IF op = "ok" THEN [calls EXCEPT ![c] = @ - 1]
                ELSE [calls EXCEPT ![c] = @ - 1,
                                   ![[c EXCEPT !.phase = "fetch"]] = @ + 1]
    /\ ev' = Effects(op, c.kind, <<toast>>, <<>>,
                     IF op = "ok" THEN <<>> ELSE <<FetchOf(c.kind)>>)

\* A call runs to its end: its toast, then `finally`
Settle(c, op, toast) ==
    /\ calls' = [calls EXCEPT ![c] = @ - 1]
    /\ SetLoading(c.kind, FALSE, c.live)
    /\ ev' = Effects(op, c.kind, <<toast>>, <<>>, <<>>)

LengthKey == <<"l", "e", "n", "g", "t", "h">>

\* What response.json() of the preview and generate endpoints may resolve to:
\* a list of lines, null, a string, an object with a length, a list holding
\* an object.
ResponseBodies ==
    {JArr(<< JStr(<<"x">>) >>), JNull, JStr(<<"x">>),
     JObj(<< <<LengthKey, JNum(1)>> >>), JArr(<< JObj(<<>>) >>)}

\* fetch resolves.  registerMapping ends here; the other two go on to await
\* response.json() when response.ok, and throw into their catch block otherwise.
FetchResolves(c, ok) ==
    /\ ~crashed
    /\ c.phase = "fetch"
    /\ calls[c] > 0
    /\ IF ~ok
       THEN Settle(c, "notOk", FailureToast(c.kind))
       ELSE IF c.kind = "register"
       THEN Settle(c, "ok", SuccessToast(c.kind))
       ELSE /\ calls' = [calls EXCEPT ![c] = @ - 1, ![[c EXCEPT !.phase = "json"]] = @ + 1]
            /\ ev' = Quiet
            /\ UNCHANGED <<isLoadingPreview, isLoadingRegister, isLoadingGenerate>>
    /\ UNCHANGED <<inputVars, pageVars, mappingVars, preview, builderVars, crashed>>

\* fetch rejects (network error)
FetchRejects(c) ==
    /\ ~crashed
    /\ c.phase = "fetch"
    /\ calls[c] > 0
    /\ Settle(c, "rejected", FailureToast(c.kind))
    /\ UNCHANGED <<inputVars, pageVars, mappingVars, preview, builderVars, crashed>>

RECURSIVE JoinItems(_, _)
\* Array.prototype.join(',') from the i-th element on: null and undefined
\* give the empty string, an array is joined in turn, an object gives
\* '[object Object]'
JoinItems(items, i) ==
    IF i > Len(items) THEN <<>>
    ELSE LET x == items[i]
             text == CASE x.t \in {"null", "undefined"} -> <<>>
                       [] x.t = "bool" -> IF x.v THEN <<"t", "r", "u", "e">> ELSE <<"f", "a", "l", "s", "e">>
                       [] x.t = "num" -> IntToStr(x.v)
                       [] x.t = "str" -> x.v
                       [] x.t = "arr" -> JoinItems(x.v, 1)
                       [] x.t = "obj" -> <<"[", "o", "b", "j", "e", "c", "t", " ", "O", "b", "j", "e", "c", "t", "]">>
         IN text \o (IF i < Len(items) THEN <<",">> ELSE <<>>) \o JoinItems(items, i + 1)

\* x > 0, where x is converted to a number as the comparison converts it
GreaterThanZero(x) ==
    CASE x.t = "num" -> x.v > 0
      [] x.t = "bool" -> x.v
      [] x.t = "str" -> ~ToNumber(x.v).nan /\ ToNumber(x.v).val > 0
      [] x.t = "arr" -> ~ToNumber(JoinItems(x.v, 1)).nan /\ ToNumber(JoinItems(x.v, 1)).val > 0
      [] OTHER -> FALSE

\* p.length, for p neither null nor undefined
LengthOf(p) ==
    CASE p.t \in {"str", "arr"} -> JNum(Len(p.v))
      [] p.t = "obj" -> GetProp(p, LengthKey)
      [] OTHER -> Undefined

RECURSIVE ValidChild(_)
\* {line}: what React takes as a child.  A plain object is refused with an
\* error; an array is a list of children.
ValidChild(line) ==
    CASE line.t = "obj" -> FALSE
      [] line.t = "arr" -> \A i \in 1..Len(line.v) : ValidChild(line.v[i])
      [] OTHER -> TRUE

\* The render of GeneratedOutput throws for the preview p:
\* {preview.length > 0 && (... preview.map((line, index) => <div>{line}</div>))}
\* reads length of null, calls a map that is no function on anything with a
\* positive length that is not an array, or meets a line React refuses.
PreviewRenderThrows(p) ==
    IF p.t \in {"null", "undefined"} THEN TRUE
    ELSE IF ~GreaterThanZero(LengthOf(p)) THEN FALSE
    ELSE IF p.t # "arr" THEN TRUE
    ELSE \E i \in 1..Len(p.v) : ~ValidChild(p.v[i])

\* response.json() resolves.  previewMapping stores the body as the preview;
\* when the next render throws on it the page is taken down and the calls
\* still suspended are left without their instance.
\* generateB2BClass reads result.message, which throws on null.
JsonResolves(c, body) ==
    /\ ~crashed
    /\ c.phase = "json"
    /\ calls[c] > 0
    /\ IF c.kind = "preview" /\ c.live /\ PreviewRenderThrows(body)
       THEN /\ calls' = Orphaned([calls EXCEPT ![c] = @ - 1])
            /\ SetLoading("preview", FALSE, TRUE)
            /\ ev' = Effects("ok", "preview", <<SuccessToast("preview")>>, <<>>, <<>>)
            /\ preview' = body
            /\ crashed' = TRUE
       ELSE IF c.kind = "preview"
       THEN /\ Settle(c, "ok", SuccessToast("preview"))
            /\ preview' = IF c.live THEN body ELSE preview
            /\ UNCHANGED crashed
       ELSE /\ IF body.t = "null"
               THEN Settle(c, "badBody", FailureToast("generate"))
               ELSE Settle(c, "ok", SuccessToast("generate"))
            /\ UNCHANGED <<preview, crashed>>
    /\ UNCHANGED <<inputVars, pageVars, mappingVars, builderVars>>

\* response.json() rejects (the body is not JSON)
JsonRejects(c) ==
    /\ ~crashed
    /\ c.phase = "json"
    /\ calls[c] > 0
    /\ Settle(c, "badBody", FailureToast(c.kind))
    /\ UNCHANGED <<inputVars, pageVars, mappingVars, preview, builderVars, crashed>>

(***************************************************************************)
(* The page: ApiSpecInput, and VisualMapping and GeneratedOutput once a    *)
(* truthy schema has been submitted                                        *)
(***************************************************************************)
Init ==
    /\ schema = <<>>
    /\ className = <<>>
    /\ isLoading = FALSE
    /\ isValid = JNull
    /\ dtoCalls = <<>>
    /\ pageSchema = JNull
    /\ pageClassName = <<>>
    /\ pageFieldMapping = <<>>
    /\ pageDefaults = <<>>
    /\ fieldMapping = <<>>
    /\ defaults = <<>>
    /\ schemaFields = <<>>
    /\ preview = JArr(<<>>)
    /\ isLoadingPreview = FALSE
    /\ isLoadingRegister = FALSE
    /\ isLoadingGenerate = FALSE
    /\ calls = NoCalls
    /\ crashed = FALSE
    /\ ev = Quiet
    /\ properties = <<>>
    /\ nextId = 1

Controls == {"select", "defaultInput", "clear"}

\* The operations of ApiSpecInput, with the texts and names the user types
InputNext(texts, names) ==
    \/ \E value \in texts : handleSchemaChange(value)
    \/ \E content \in texts : handleFileUpload(content)
    \/ \E value \in names : setClassName(value)
    \/ beautifyJson
    \/ generateDTOs
    \/ \E i \in 1..Len(dtoCalls), ok \in BOOLEAN : DtoFetchResolves(i, ok)
    \/ \E i \in 1..Len(dtoCalls) : DtoFetchRejects(i)
    \/ \E i \in 1..Len(dtoCalls), result \in DtoResults : DtoJsonResolves(i, result)
    \/ \E i \in 1..Len(dtoCalls) : DtoJsonRejects(i)

\* The controls VisualMapping renders for the base fields `fields`
MappingNext(fields) ==
    \E baseField \in fields, control \in Controls,
       value \in SelectItems \cup DefaultTexts :
         VisualMappingEvent(baseField, control, value)

\* The buttons of GeneratedOutput and the ends of the calls they start
OutputNext ==
    \/ previewMapping
    \/ registerMapping
    \/ generateB2BClass
    \/ copyToClipboard
    \/ \E c \in CallShapes, ok \in BOOLEAN : FetchResolves(c, ok)
    \/ \E c \in CallShapes : FetchRejects(c)
    \/ \E c \in CallShapes, body \in ResponseBodies : JsonResolves(c, body)
    \/ \E c \in CallShapes : JsonRejects(c)

(***************************************************************************)
(* Spec: the input side of the page.  The user edits the form of           *)
(* ApiSpecInput and generates DTOs; Index takes each submitted schema and  *)
(* mounts or unmounts the two other steps.                                 *)
(***************************************************************************)
Next == InputNext(SchemaTexts, ClassNames)

Spec == Init /\ [][Next]_vars

(***************************************************************************)
(* States of the page with no call running: `text` and `name` in the form, *)
(* `submitted` the schema Index holds (null before any submit), `mapping`  *)
(* and `defs` the state of VisualMapping.                                  *)
(***************************************************************************)
IdlePage(text, name, submitted, mapping, defs) ==
    /\ schema = text
    /\ className = name
    /\ isLoading = FALSE
    /\ isValid = validateJson(text)
    /\ dtoCalls = <<>>
    /\ pageSchema = submitted
    /\ pageClassName = (IF Truthy(submitted) THEN name ELSE <<>>)
    /\ pageFieldMapping = mapping
    /\ pageDefaults = defs
    /\ fieldMapping = mapping
    /\ defaults = defs
    /\ schemaFields = extractFields(submitted, <<>>).fields
    /\ preview = JArr(<<>>)
    /\ isLoadingPreview = FALSE
    /\ isLoadingRegister = FALSE
    /\ isLoadingGenerate = FALSE
    /\ calls = NoCalls
    /\ crashed = FALSE
    /\ ev = Quiet
    /\ properties = <<>>
    /\ nextId = 1

\* The page once SchemaText has been submitted under the class name Ab
InitMapped == IdlePage(SchemaText, <<"A", "b">>, JSONparse(SchemaText).val, <<>>, <<>>)

(***************************************************************************)
(* SpecMapping: VisualMapping, operated through the controls it renders by *)
(* a user who keeps using every control that is offered.                   *)
(***************************************************************************)
\* The user operates a control of the given kind, of any base field
ControlUsed(control) ==
    \E baseField \in BaseFields, value \in SelectItems \cup DefaultTexts :
        VisualMappingEvent(baseField, control, value)

\* The user picks 'Use Default Value' in the select of some base field
UseDefaultChosen ==
    \E baseField \in BaseFields : VisualMappingEvent(baseField, "select", USE_DEFAULT)

SpecMapping ==
    /\ InitMapped
    /\ [][MappingNext(BaseFields)]_vars
    /\ SF_vars(UseDefaultChosen)
    /\ \A control \in Controls : SF_vars(ControlUsed(control))

(***************************************************************************)
(* SpecHandlers: the three handlers of VisualMapping called in any order   *)
(***************************************************************************)
HandlerCall(baseField, apiField, value, which) ==
    /\ ~crashed
    /\ Mounted
    /\ IF which = "handleFieldMapping" THEN handleFieldMapping(baseField, apiField)
       ELSE IF which = "handleDefaultValue" THEN handleDefaultValue(baseField, value)
       ELSE clearMapping(baseField)
    /\ Len(fieldMapping') <= MaxMapped
    /\ Len(defaults') <= MaxMapped
    /\ ev' = Quiet
    /\ UNCHANGED <<inputVars, pageSchema, pageClassName, schemaFields, outputVars,
                   builderVars, crashed>>

CallFieldMapping(baseField, apiField) ==
    HandlerCall(baseField, apiField, <<>>, "handleFieldMapping")

CallDefaultValue(baseField, value) ==
    HandlerCall(baseField, <<>>, value, "handleDefaultValue")

CallClearMapping(baseField) ==
    HandlerCall(baseField, <<>>, <<>>, "clearMapping")

\* The base fields the handlers are called with
HandlerFields == {BASE_REQUEST_FIELDS[5], BASE_REQUEST_FIELDS[7], BASE_REQUEST_FIELDS[8]}

HandlersNext ==
    \/ \E baseField \in HandlerFields, apiField \in SelectItems : CallFieldMapping(baseField, apiField)
    \/ \E baseField \in HandlerFields, value \in DefaultTexts : CallDefaultValue(baseField, value)
    \/ \E baseField \in HandlerFields : CallClearMapping(baseField)

SpecHandlers == InitMapped /\ [][HandlersNext]_vars

(***************************************************************************)
(* SpecOutput: the output side of the page.  ApiSpecInput hands schemas to *)
(* Index, the user maps a base field and runs the three backend actions.   *)
(***************************************************************************)
\* What ApiSpecInput hands to onSchemaSubmit: a parsed text and a class name
SubmittedSchemas == {JSONparse(t).val : t \in PageTexts}

\* onSchemaSubmit(schema, name), called by a generateDTOs call that ends
onSchemaSubmit(submittedSchema, submittedClassName) ==
    /\ ~crashed
    /\ handleSchemaSubmit(submittedSchema, submittedClassName)
    /\ ev' = Effects("submit", "dto", <<>>,
                     << [schema |-> submittedSchema, className |-> submittedClassName] >>, <<>>)
    /\ UNCHANGED <<inputVars, builderVars>>

\* The base fields operated while the output side is explored
OutputFields == {BASE_REQUEST_FIELDS[8]}

OutputSideNext ==
    \/ \E s \in SubmittedSchemas, n \in PageNames : onSchemaSubmit(s, n)
    \/ MappingNext(OutputFields)
    \/ OutputNext

SpecOutput == Init /\ [][OutputSideNext]_vars

(***************************************************************************)
(* SchemaBuilder                                                           *)
(***************************************************************************)
\* Properties the builder may ever create (ids are never reused)
MaxIds == 3

\* What the user types into a name input
BuilderNames == {<<>>, <<"b">>, <<"1">>, <<"_", "_", "p", "r", "o", "t", "o", "_", "_">>}

\* The items of the type select the user picks
BuilderTypes == {StringStr, ObjectStr}

\* The new property of addProperty, with the id generateId returned
NewProperty(id) ==
    [id |-> id, name |-> <<>>, type |-> StringStr, required |-> TRUE,
     properties |-> <<>>, isOpen |-> FALSE]

\* Updater functions of which the one for the type keeps the nested properties
UpdaterKeepsNested(prop, u) ==
    CASE u.op = "add" -> [prop EXCEPT !.properties = Append(prop.properties, u.value)]
      [] u.op = "name" -> [prop EXCEPT !.name = u.value]
      [] u.op = "type" -> [prop EXCEPT !.type = u.value]
      [] u.op = "toggle" -> [prop EXCEPT !.isOpen = ~prop.isOpen]

\* The updater functions handed to updateNestedProperty
Updater(prop, u) ==
    CASE u.op = "add" -> [prop EXCEPT !.properties = Append(prop.properties, u.value)]
      [] u.op = "name" -> [prop EXCEPT !.name = u.value]
      [] u.op = "type" ->
            IF u.value # ObjectStr
            THEN [prop EXCEPT !.type = u.value, !.properties = <<>>]
            ELSE [prop EXCEPT !.type = u.value]
      [] u.op = "toggle" -> [prop EXCEPT !.isOpen = ~prop.isOpen]

RECURSIVE updateNestedProperty(_, _, _)
\* updateNestedProperty(props, targetId, updater)
updateNestedProperty(props, targetId, u) ==
    [i \in 1..Len(props) |->
        IF props[i].id = targetId THEN Updater(props[i], u)
        ELSE IF Len(props[i].properties) > 0
        THEN [props[i] EXCEPT !.properties = updateNestedProperty(props[i].properties, targetId, u)]
        ELSE props[i]]

RECURSIVE removeNestedProperty(_, _)
\* removeNestedProperty(props, targetId)
removeNestedProperty(props, targetId) ==
    IF props = <<>> THEN <<>>
    ELSE IF props[1].id = targetId THEN removeNestedProperty(Tail(props), targetId)
    ELSE << [props[1] EXCEPT !.properties = removeNestedProperty(props[1].properties, targetId)] >>
         \o removeNestedProperty(Tail(props), targetId)

RECURSIVE Rendered(_)
\* The properties renderProperty draws:
\* all at the top level, and those under ancestors that are open objects.
Rendered(props) ==
    IF props = <<>> THEN {}
    ELSE {props[1]}
         \cup (IF props[1].type = ObjectStr /\ props[1].isOpen
               THEN Rendered(props[1].properties) ELSE {})
         \cup Rendered(Tail(props))

RenderedProperties == Rendered(properties)

BuilderStep(newProperties) ==
    /\ properties' = newProperties
    /\ ev' = Quiet
    /\ UNCHANGED <<inputVars, pageVars, mappingVars, outputVars, crashed>>

\* addProperty(), from the Add Property button
addProperty ==
    /\ nextId <= MaxIds
    /\ nextId' = nextId + 1
    /\ BuilderStep(Append(properties, NewProperty(nextId)))

\* addProperty(parentId), from the Add Nested Property button of an open object
addNestedProperty(parent) ==
    /\ nextId <= MaxIds
    /\ parent \in RenderedProperties
    /\ parent.type = ObjectStr /\ parent.isOpen
    /\ nextId' = nextId + 1
    /\ BuilderStep(updateNestedProperty(properties, parent.id,
                       [op |-> "add", value |-> NewProperty(nextId)]))

\* updateProperty(id, 'name', value), from a name input
updateName(prop, value) ==
    /\ prop \in RenderedProperties
    /\ UNCHANGED nextId
    /\ BuilderStep(updateNestedProperty(properties, prop.id, [op |-> "name", value |-> value]))

\* updateProperty(id, 'type', value), from a type select
updateType(prop, value) ==
    /\ prop \in RenderedProperties
    /\ UNCHANGED nextId
    /\ BuilderStep(updateNestedProperty(properties, prop.id, [op |-> "type", value |-> value]))

\* removeProperty(id), from a trash button
removeProperty(prop) ==
    /\ prop \in RenderedProperties
    /\ UNCHANGED nextId
    /\ BuilderStep(removeNestedProperty(properties, prop.id))

\* toggleProperty(id), from the chevron of an object property
toggleProperty(prop) ==
    /\ prop \in RenderedProperties
    /\ prop.type = ObjectStr
    /\ UNCHANGED nextId
    /\ BuilderStep(updateNestedProperty(properties, prop.id, [op |-> "toggle", value |-> <<>>]))

\* disabled={properties.length === 0 || properties.some(p => !p.name)}
GenerateSchemaDisabled ==
    Len(properties) = 0 \/ \E i \in 1..Len(properties) : properties[i].name = <<>>

\* handleGenerateSchema, from the Generate Schema button: the schema text is
\* handed to onSchemaGenerated
handleGenerateSchema ==
    /\ ~GenerateSchemaDisabled
    /\ ev' = Effects("handleGenerateSchema", "none", <<>>,
                     << [schema |-> JSONstringify(generateJsonSchema(properties)),
                         className |-> <<>>] >>, <<>>)
    /\ UNCHANGED <<inputVars, pageVars, mappingVars, outputVars, builderVars, crashed>>

RECURSIVE Nodes(_)
\* Every property of a tree, at any depth
Nodes(props) ==
    IF props = <<>> THEN {}
    ELSE {props[1]} \cup Nodes(props[1].properties) \cup Nodes(Tail(props))

BuilderNext ==
    \/ addProperty
    \/ \E parent \in Nodes(properties) : addNestedProperty(parent)
    \/ \E prop \in Nodes(properties), value \in BuilderNames : updateName(prop, value)
    \/ \E prop \in Nodes(properties), value \in BuilderTypes : updateType(prop, value)
    \/ \E prop \in Nodes(properties) : removeProperty(prop)
    \/ \E prop \in Nodes(properties) : toggleProperty(prop)
    \/ handleGenerateSchema

(***************************************************************************)
(* SpecBuilder: the SchemaBuilder component operated through its controls  *)
(***************************************************************************)
SpecBuilder == Init /\ [][BuilderNext]_vars

(***************************************************************************)
(* SpecRequests: the four handlers that call the backend, and the ends of  *)
(* their calls, from the states in which the page waits for the user: the  *)
(* form filled in, and either nothing submitted yet or SchemaText          *)
(* submitted and a base field mapped or not.                               *)
(***************************************************************************)
RequestMappings == {<<>>, << <<BASE_REQUEST_FIELDS[8], JStr(<<"a">>)>> >>}

RequestsInit ==
    \E text \in PageTexts, submitted \in {JNull, JSONparse(SchemaText).val},
       mapping \in RequestMappings :
        /\ Truthy(submitted) \/ mapping = <<>>
        /\ IdlePage(text, <<"A", "b">>, submitted, mapping, <<>>)

RequestsNext ==
    \/ generateDTOs
    \/ \E i \in 1..Len(dtoCalls), ok \in BOOLEAN : DtoFetchResolves(i, ok)
    \/ \E i \in 1..Len(dtoCalls) : DtoFetchRejects(i)
    \/ \E i \in 1..Len(dtoCalls), result \in DtoResults : DtoJsonResolves(i, result)
    \/ \E i \in 1..Len(dtoCalls) : DtoJsonRejects(i)
    \/ OutputNext

SpecRequests == RequestsInit /\ [][RequestsNext]_vars

(***************************************************************************)
(* SpecConfig: GeneratedOutput rendered with props drawn from ConfigNames, *)
(* ConfigMappings and ConfigDefaultSets                                    *)
(***************************************************************************)
ConfigNames == {<<"A", "b">>, <<"A", "b", "R", "e", "q", "u", "e", "s", "t">>, <<"r", "e", "q", "u", "e", "s", "t", "A", "b">>, <<"R", "e", "q", "u", "e", "s", "t", "R", "E", "Q", "U", "E", "S", "T">>, <<"r", "e", "q", "u", "e", "s", "t">>}

ConfigMappings == {<<>>, << <<BASE_REQUEST_FIELDS[8], JStr(<<"a">>)>> >>}

ConfigDefaultSets ==
    {<<>>,
     << <<CurrentLat, JStr(<<"5">>)>> >>,
     << <<BASE_REQUEST_FIELDS[8], JStr(<<"x">>)>>, <<CurrentLng, JStr(<<"t", "r", "u", "e">>)>> >>}

ConfigInit ==
    \E name \in ConfigNames, mapping \in ConfigMappings, defs \in ConfigDefaultSets :
        IdlePage(SchemaText, name, JSONparse(SchemaText).val, mapping, defs)

SpecConfig == ConfigInit /\ [][OutputNext]_vars

(***************************************************************************)
(* SpecJson: a JSON document is in the form and ApiSpecInput submits what  *)
(* JSON.parse makes of it; VisualMapping extracts its fields.              *)
(***************************************************************************)
Leaves ==
    {JNull, JBool(TRUE), JNum(0), JNum(1), JStr(<<>>), JStr(<<"a", "b">>), JStr(ObjectStr),
     JArr(<<>>), JObj(<<>>)}

\* Entries of a schema's 'properties'
PropertyDocs ==
    Leaves
    \cup {JArr(<<JNull>>), JObj(<< <<TypeKey, JStr(StringStr)>> >>),
          JObj(<< <<TypeKey, JStr(ObjectStr)>> >>),
          JObj(<< <<TypeKey, JStr(ObjectStr)>>, <<PropertiesKey, JNull>> >>),
          JObj(<< <<TypeKey, JStr(ObjectStr)>>, <<PropertiesKey, JObj(<<>>)>> >>),
          JObj(<< <<TypeKey, JStr(ObjectStr)>>,
                  <<PropertiesKey, JObj(<< <<<<"b">>, JObj(<< <<TypeKey, JStr(NumberStr)>> >>)>> >>)>> >>),
          JObj(<< <<TypeKey, JStr(ObjectStr)>>,
                  <<PropertiesKey, JObj(<< <<<<"b">>, JNull>> >>)>> >>)}

\* Values of a schema's 'properties' member
PropertiesDocs ==
    Leaves
    \cup {JObj(<< <<<<"a">>, p>> >>) : p \in PropertyDocs}
    \cup {JObj(<< <<<<"a">>, JObj(<< <<TypeKey, JStr(StringStr)>> >>)>>, <<<<"c">>, p>> >>) :
             p \in {JNull, JNum(0), JObj(<< <<TypeKey, JStr(StringStr)>> >>)}}
    \cup {JArr(<<p>>) : p \in {JNull, JStr(<<"a", "b">>), JObj(<<>>)}}

TypeDocs == {JStr(ObjectStr), JStr(StringStr), JNull}

JsonDocs ==
    Leaves
    \cup {JArr(<<p>>) : p \in {JNull, JObj(<< <<TypeKey, JStr(ObjectStr)>> >>)}}
    \cup {JObj(<< <<TypeKey, t>> >>) : t \in TypeDocs}
    \cup {JObj(<< <<PropertiesKey, p>> >>) : p \in PropertiesDocs}
    \cup {JObj(<< <<TypeKey, t>>, <<PropertiesKey, p>> >>) : t \in TypeDocs, p \in PropertiesDocs}

\* The texts of the documents, as JSON.stringify writes them
JsonTexts == {JSONstringify(d) : d \in JsonDocs}

JsonInit == \E text \in JsonTexts : IdlePage(text, <<"A", "b">>, JNull, <<>>, <<>>)

JsonNext == onSchemaSubmit(JSONparse(schema).val, className)

SpecJson == JsonInit /\ [][JsonNext]_vars

(***************************************************************************)
(* Properties                                                              *)
(***************************************************************************)
\* `toast` is among the toasts `toasts`
Shown(toasts, toast) == \E j \in 1..Len(toasts) : toasts[j] = toast

\* C1: when the fetch of a generateDTOs call rejects, or resolves with a
\* response that is not ok, that step shows the destructive 'Generation Failed'
\* toast and calls onSchemaSubmit once, with JSON.parse of the schema text and
\* with the class name the call was started with; Index then holds that
\* schema and class name, and the mapping step is rendered for it.
C1_FallbackSubmit ==
    [][\A i \in 1..Len(dtoCalls) :
          (DtoFetchRejects(i) \/ DtoFetchResolves(i, FALSE)) =>
              /\ Shown(ev'.toasts, Toast("Generation Failed", "destructive"))
              /\ JSONparse(dtoCalls[i].schema).ok
              /\ ev'.submits = << [schema |-> JSONparse(dtoCalls[i].schema).val,
                                   className |-> dtoCalls[i].className] >>
              /\ pageSchema' = JSONparse(dtoCalls[i].schema).val
              /\ pageClassName' = dtoCalls[i].className
              /\ Mounted'
              /\ ~crashed']_vars

\* C2: a user who keeps operating the controls VisualMapping renders (the
\* select with its 'Use Default Value' item, the default value input, the
\* clear button) comes to a state in which defaults has an entry.
C2_DefaultReachable == <>(defaults # <<>>)

\* C3: after any sequence of handleFieldMapping, handleDefaultValue and
\* clearMapping calls, no base field is a key of both fieldMapping and defaults.
C3_EitherPathOrDefault ==
    \A baseField \in BaseFields :
        ~(HasKey(fieldMapping, baseField) /\ HasKey(defaults, baseField))

\* The text is empty or consists of white space only
IsBlank(text) == \A i \in 1..Len(text) : IsTrimWs(text[i])

\* C4: the validity indicator matches the schema text: isValid is null iff
\* the text is blank, true iff the text parses as JSON, and false iff the text
\* is not blank and does not parse.
C4_ValidityMatchesText ==
    /\ (isValid = JNull) <=> IsBlank(schema)
    /\ (isValid = JBool(TRUE)) <=> JSONparse(schema).ok
    /\ (isValid = JBool(FALSE)) <=> (~IsBlank(schema) /\ ~JSONparse(schema).ok)

\* beautifyJson has just rewritten a text that parses, and the indicator is true.
C4_Witness ==
    /\ ev.op = "beautify"
    /\ schema = JSONstringify(JSONparse(SchemaText).val)
    /\ schema # SchemaText
    /\ isValid = JBool(TRUE)

\* The calls to the backend that have not ended
Pending(ds, cs) == Len(ds) + CallCount(cs)

\* C5: a step issues a request only when it is a click on one of the four
\* buttons, and then it issues exactly one request and leaves one more call
\* pending; any other step (a call failing or succeeding included) issues no
\* request and leaves no more calls pending than before.
C5_NoRetry ==
    [][IF generateDTOs \/ previewMapping \/ registerMapping \/ generateB2BClass
       THEN /\ Len(ev'.requests) = 1
            /\ Pending(dtoCalls', calls') = Pending(dtoCalls, calls) + 1
       ELSE /\ ev'.requests = <<>>
            /\ Pending(dtoCalls', calls') <= Pending(dtoCalls, calls)]_vars

\* A preview request has just failed, and no call is pending.
C5_Witness ==
    /\ ev.kind = "preview"
    /\ ev.op \in {"notOk", "rejected"}
    /\ Shown(ev.toasts, Toast("Preview Failed", "destructive"))
    /\ Pending(dtoCalls, calls) = 0
    /\ ~isLoadingPreview

RECURSIVE NamesOk(_)
\* The names of a tree are non-empty, dot-free and distinct among siblings
NamesOk(props) ==
    \A i \in 1..Len(props) :
        /\ props[i].name # <<>>
        /\ \A j \in 1..Len(props[i].name) : props[i].name[j] # "."
        /\ \A j \in 1..Len(props) : j # i => props[j].name # props[i].name
        /\ NamesOk(props[i].properties)

RECURSIVE ExpectedPaths(_, _)
\* The dot-joined name paths of the non-object properties, in tree order
ExpectedPaths(props, prefix) ==
    IF props = <<>> THEN <<>>
    ELSE LET path == IF prefix = <<>> THEN props[1].name
                     ELSE prefix \o <<".">> \o props[1].name
         IN (IF props[1].type = ObjectStr
             THEN ExpectedPaths(props[1].properties, path)
             ELSE <<path>>)
            \o ExpectedPaths(Tail(props), prefix)

\* C6: for a property tree whose names are non-empty, dot-free and distinct
\* among siblings, extractFields of the generated schema returns exactly the
\* dot-joined paths of the tree's non-object properties, in tree order.
C6_ExtractInvertsGenerate ==
    NamesOk(properties) =>
        extractFields(generateJsonSchema(properties), <<>>)
            = Returned(ExpectedPaths(properties, <<>>))

\* C7: extractFields never throws on what JSON.parse returns, and the fields
\* are the empty list when the root is not an object with type 'object' and
\* a 'properties' member.
C7_ExtractionTotal ==
    /\ ~crashed
    /\ (pageSchema.t # "obj"
        \/ GetProp(pageSchema, TypeKey) # JStr(ObjectStr)
        \/ ~HasKey(pageSchema.v, PropertiesKey)) => schemaFields = <<>>

\* C8: no preview, register or generate-class request is issued from a render
\* in which fieldMapping and defaults are both empty; and when one of them is
\* not empty and no request of a kind is in flight, that kind's button is
\* enabled.
C8_EnabledOnlyWhenMapped ==
    /\ [](\A kind \in Kinds :
            (Mounted /\ ~crashed /\ InFlight(kind) = 0
             /\ (Len(pageFieldMapping) > 0 \/ Len(pageDefaults) > 0))
                => ~ButtonDisabled(kind))
    /\ [][(previewMapping \/ registerMapping \/ generateB2BClass)
             => (Len(pageFieldMapping) > 0 \/ Len(pageDefaults) > 0)]_vars

\* A preview request has just been issued with a base field mapped; its own
\* button is disabled and the register button is enabled.
C8_Witness ==
    /\ ev.op = "previewMapping"
    /\ Len(ev.requests) = 1
    /\ Len(pageFieldMapping) > 0
    /\ ButtonDisabled("preview")
    /\ InFlight("register") = 0
    /\ ~ButtonDisabled("register")

\* C9: at most one request of each kind is in flight at a time.
C9_OnePerKind == \A kind \in Kinds : InFlight(kind) <= 1

\* The b2bName of a class name: lower-cased, one trailing 'request' removed
ExpectedB2bName(name) ==
    LET lower == toLowerCase(name)
    IN IF Len(lower) >= 7 /\ SubSeq(lower, Len(lower) - 6, Len(lower)) = <<"r", "e", "q", "u", "e", "s", "t">>
       THEN SubSeq(lower, 1, Len(lower) - 7)
       ELSE lower

\* C10: the body of a preview or register request is the displayed
\* configuration, whose b2bName is the class name lower-cased with one trailing
\* 'request' removed and whose requestClass is 'com.example.demoVersion.dto.'
\* followed by the class name; a generate-class request goes to
\* /b2b/generate/<b2bName> with the body {}.
C10_Payload ==
    \A j \in 1..Len(ev.requests) :
        LET r == ev.requests[j]
        IN IF r.kind = "generate"
           THEN /\ r.url = <<"h", "t", "t", "p", ":", "/", "/", "l", "o", "c", "a", "l", "h", "o", "s", "t", ":", "8", "0", "8", "3", "/", "b", "2", "b", "/", "g", "e", "n", "e", "r", "a", "t", "e", "/">> \o ExpectedB2bName(pageClassName)
                /\ r.body = <<"{", "}">>
           ELSE /\ JSONparse(r.body) = JSONparse(JSONstringify(configJson))
                /\ GetProp(JSONparse(r.body).val, <<"b", "2", "b", "N", "a", "m", "e">>) = JStr(ExpectedB2bName(pageClassName))
                /\ GetProp(JSONparse(r.body).val, <<"r", "e", "q", "u", "e", "s", "t", "C", "l", "a", "s", "s">>)
                      = JStr(<<"c", "o", "m", ".", "e", "x", "a", "m", "p", "l", "e", ".", "d", "e", "m", "o", "V", "e", "r", "s", "i", "o", "n", ".", "d", "t", "o", ".">> \o pageClassName)

\* A generate-class request has just been issued for the class name
\* RequestREQUEST: it goes to /b2b/generate/request.
C10_Witness ==
    /\ ev.op = "generateB2BClass"
    /\ pageClassName = <<"R", "e", "q", "u", "e", "s", "t", "R", "E", "Q", "U", "E", "S", "T">>
    /\ Len(ev.requests) = 1
    /\ ev.requests[1].url = <<"h", "t", "t", "p", ":", "/", "/", "l", "o", "c", "a", "l", "h", "o", "s", "t", ":", "8", "0", "8", "3", "/", "b", "2", "b", "/", "g", "e", "n", "e", "r", "a", "t", "e", "/", "r", "e", "q", "u", "e", "s", "t">>
    /\ ev.requests[1].body = <<"{", "}">>

(***************************************************************************)
(* The two tree traversals, with the nodes their callbacks run on          *)
(***************************************************************************)
RECURSIVE GenerateVisits(_, _, _, _)
\* A traversal that descends twice into the children of an object property
GenerateVisitsTwice(props, addr, i, visits) ==
    IF i > Len(props) THEN visits
    ELSE LET here == Append(addr, i)
             below == IF props[i].name # <<>> /\ props[i].type = ObjectStr
                      THEN GenerateVisits(props[i].properties, here, 1, <<>>)
                      ELSE <<>>
         IN GenerateVisits(props, addr, i + 1, Append(visits, here) \o below \o below)

\* generateJsonSchema(props), from the i-th property on: the properties its
\* forEach callback runs on, in order, each named by its index path from the
\* root (addr is the index path of the property that holds props).
GenerateVisits(props, addr, i, visits) ==
    IF i > Len(props) THEN visits
    ELSE LET prop == props[i]
             here == Append(addr, i)
         IN IF prop.name = <<>> THEN GenerateVisits(props, addr, i + 1, Append(visits, here))
            ELSE IF prop.type = ObjectStr
            THEN GenerateVisits(props, addr, i + 1,
                     Append(visits, here) \o GenerateVisits(prop.properties, here, 1, <<>>))
            ELSE GenerateVisits(props, addr, i + 1, Append(visits, here))

RECURSIVE ExtractVisits(_, _)
RECURSIVE ExtractKeyVisits(_, _, _, _)
\* extractFields(obj): the members its forEach callback runs on, in order,
\* each named by its key path from the root; threw as in extractFields.
ExtractVisits(obj, addr) ==
    IF Truthy(obj) /\ TypeofObject(obj) /\ IsObjectSchema(obj)
    THEN ExtractKeyVisits(GetProp(obj, PropertiesKey), addr, 1, <<>>)
    ELSE [threw |-> FALSE, visits |-> <<>>]

\* The forEach over Object.keys(obj.properties), from the i-th key on.
ExtractKeyVisits(members, addr, i, visits) ==
    LET keys == ObjectKeys(members)
    IN IF i > Len(keys) THEN [threw |-> FALSE, visits |-> visits]
       ELSE LET key == keys[i]
                here == Append(addr, key)
                property == GetProp(members, key)
            IN IF property.t \in {"null", "undefined"}
               THEN [threw |-> TRUE, visits |-> Append(visits, here)]
               ELSE IF IsObjectSchema(property)
               THEN LET sub == ExtractVisits(property, here)
                    IN IF sub.threw
                       THEN [threw |-> TRUE, visits |-> Append(visits, here) \o sub.visits]
                       ELSE ExtractKeyVisits(members, addr, i + 1,
                                Append(visits, here) \o sub.visits)
               ELSE ExtractKeyVisits(members, addr, i + 1, Append(visits, here))

(***************************************************************************)
(* SpecTraversals: the inputs of the two traversals.  Either the form is   *)
(* empty and the user builds a property tree in SchemaBuilder, or a JSON   *)
(* document is in the form and ApiSpecInput submits what JSON.parse makes  *)
(* of it.                                                                  *)
(***************************************************************************)
TraversalsInit == Init \/ JsonInit

TraversalsNext ==
    \/ schema = <<>> /\ BuilderNext
    \/ schema # <<>> /\ JsonNext

SpecTraversals == TraversalsInit /\ [][TraversalsNext]_vars

RECURSIVE TreeSize(_)
\* The number of properties of a tree, at any depth
TreeSize(props) ==
    IF props = <<>> THEN 0
    ELSE 1 + TreeSize(props[1].properties) + TreeSize(Tail(props))

RECURSIVE DocSize(_)
RECURSIVE DocSizeFrom(_, _)
\* The size of a JSON document: its values at any depth, and the characters
\* of its strings
DocSize(x) ==
    CASE x.t = "obj" -> 1 + DocSizeFrom(x.v, 1)
      [] x.t = "arr" -> 1 + DocSizeFrom([i \in 1..Len(x.v) |-> <<i, x.v[i]>>], 1)
      [] x.t = "str" -> 1 + Len(x.v)
      [] OTHER -> 1

DocSizeFrom(pairs, i) ==
    IF i > Len(pairs) THEN 0 ELSE DocSize(pairs[i][2]) + DocSizeFrom(pairs, i + 1)

\* No element occurs twice in the sequence
Distinct(seq) == \A i, j \in 1..Len(seq) : seq[i] = seq[j] => i = j

\* C11: both traversals visit no node twice and are bounded by their input:
\* generateJsonSchema runs its callback on pairwise distinct properties of
\* the tree, at most as many times as the tree has properties, and
\* extractFields runs its callback on pairwise distinct members of the parsed
\* document, at most as many times as the document's size.
C11_TraversalsBounded ==
    /\ LET visits == GenerateVisits(properties, <<>>, 1, <<>>)
       IN Distinct(visits) /\ Len(visits) <= TreeSize(properties)
    /\ JSONparse(schema).ok =>
          LET visits == ExtractVisits(JSONparse(schema).val, <<>>).visits
          IN Distinct(visits) /\ Len(visits) <= DocSize(JSONparse(schema).val)

\* The document with a nested object schema has been submitted: extractFields
\* ran on 'a' and on 'b' inside it, once each.
C11_Witness ==
    /\ ev.op = "submit"
    /\ ~crashed
    /\ pageSchema = JSONparse(schema).val
    /\ ExtractVisits(pageSchema, <<>>).visits = << <<<<"a">>>>, <<<<"a">>, <<"b">>>> >>
    /\ schemaFields = << <<"a", ".", "b">> >>

(***************************************************************************)
(* SpecDto: the form of ApiSpecInput, with generateDTOs also called while  *)
(* one of its inputs is missing                                            *)
(***************************************************************************)
\* The schema text is empty, the class name is empty, or isValid is not true
DtoInputsMissing == schema = <<>> \/ className = <<>> \/ isValid # JBool(TRUE)

\* generateDTOs called while an input is missing
generateDTOsBlocked ==
    /\ ~crashed
    /\ DtoInputsMissing
    /\ GenerateDTOsHandler

DtoNext ==
    \/ InputNext(SchemaTexts, ClassNames)
    \/ generateDTOsBlocked

SpecDto == Init /\ [][DtoNext]_vars

\* C12: a generateDTOs call made while the schema text is empty, the class
\* name is empty or isValid is not true sends no request, shows no toast,
\* calls onSchemaSubmit not at all and leaves the loading flag, the pending
\* calls and Index as they are; the Generate DTOs button is disabled exactly
\* when one of the three is missing or a DTO request is in flight; and at
\* most one DTO request is in flight.
C12_GuardedSingleRequest ==
    /\ [](GenerateDTOsDisabled <=> (DtoInputsMissing \/ Len(dtoCalls) > 0))
    /\ [](Len(dtoCalls) <= 1)
    /\ [][generateDTOsBlocked =>
             /\ ev'.requests = <<>>
             /\ ev'.submits = <<>>
             /\ ev'.toasts = <<>>
             /\ UNCHANGED <<isLoading, dtoCalls, pageVars>>]_vars

\* With a request in flight for SchemaText the user has emptied the class
\* name, and generateDTOs has been called: it returned at once.
C12_Witness ==
    /\ ev.op = "generateDTOs"
    /\ ev.requests = <<>>
    /\ Len(dtoCalls) = 1
    /\ dtoCalls[1].schema = SchemaText
    /\ className = <<>>
    /\ isValid = JBool(TRUE)
    /\ GenerateDTOsDisabled

\* The i-th pending generateDTOs call runs to its end
DtoEnds(i) ==
    \/ DtoFetchRejects(i)
    \/ DtoFetchResolves(i, FALSE)
    \/ DtoJsonRejects(i)
    \/ \E result \in DtoResults : DtoJsonResolves(i, result)

\* C13: a click on Generate DTOs leaves one call pending, which holds the
\* schema text and the class name of the form, and the text parses; the step
\* in which a pending call ends, however it ends, calls onSchemaSubmit once,
\* with JSON.parse of that text and with that class name, shows no 'Invalid
\* Schema' toast and leaves the call pending no longer; no other step calls
\* onSchemaSubmit.
C13_SubmitOnce ==
    [][/\ generateDTOs =>
             /\ dtoCalls' = Append(dtoCalls, [schema |-> schema, className |-> className,
                                              phase |-> "fetch"])
             /\ JSONparse(schema).ok
       /\ \A i \in 1..Len(dtoCalls) :
             DtoEnds(i) =>
                 /\ ev'.submits = << [schema |-> JSONparse(dtoCalls[i].schema).val,
                                      className |-> dtoCalls[i].className] >>
                 /\ ~Shown(ev'.toasts, Toast("Invalid Schema", "destructive"))
                 /\ Len(dtoCalls') = Len(dtoCalls) - 1
       /\ (~\E i \in 1..Len(dtoCalls) : DtoEnds(i)) => ev'.submits = <<>>]_vars

\* A call made for SchemaText has ended with an ok response after the user
\* replaced the text in the form: SchemaText was submitted.
C13_Witness ==
    /\ ev.kind = "dto"
    /\ ev.op = "ok"
    /\ Shown(ev.toasts, Toast("DTOs Generated", "default"))
    /\ ev.submits = << [schema |-> JSONparse(SchemaText).val, className |-> <<"A", "b">>] >>
    /\ schema = ZeroText
    /\ pageSchema = JSONparse(SchemaText).val
    /\ dtoCalls = <<>>

(***************************************************************************)
(* SpecSettling: SpecRequests with every request settling: a pending call  *)
(* of a mounted component is not left waiting for ever.                    *)
(***************************************************************************)
\* A pending generateDTOs call goes on from its await
DtoProgress ==
    \E i \in 1..Len(dtoCalls) :
        \/ \E ok \in BOOLEAN : DtoFetchResolves(i, ok)
        \/ DtoFetchRejects(i)
        \/ \E result \in DtoResults : DtoJsonResolves(i, result)
        \/ DtoJsonRejects(i)

\* A pending call of the mounted GeneratedOutput goes on from its await
LiveProgress(kind) ==
    \E c \in CallShapes :
        /\ c.kind = kind
        /\ c.live
        /\ \/ \E ok \in BOOLEAN : FetchResolves(c, ok)
           \/ FetchRejects(c)
           \/ \E body \in ResponseBodies : JsonResolves(c, body)
           \/ JsonRejects(c)

SpecSettling ==
    /\ RequestsInit
    /\ [][RequestsNext]_vars
    /\ WF_vars(DtoProgress)
    /\ \A kind \in Kinds : WF_vars(LiveProgress(kind))

\* The call of shape c runs to its end
CallEnds(c) ==
    \/ FetchRejects(c)
    \/ FetchResolves(c, FALSE)
    \/ c.kind = "register" /\ FetchResolves(c, TRUE)
    \/ JsonRejects(c)
    \/ \E body \in ResponseBodies : JsonResolves(c, body)

\* C14: the step in which a generateDTOs call ends leaves isLoading false,
\* and the step in which a call of the mounted GeneratedOutput ends leaves the
\* loading flag of its kind false, however the call ends; and when every
\* request settles, a loading flag that is true becomes false again (or the
\* page has crashed and renders nothing).
C14_LoadingClears ==
    /\ [][/\ \A i \in 1..Len(dtoCalls) : DtoEnds(i) => ~isLoading'
          /\ \A c \in CallShapes : (c.live /\ CallEnds(c)) => ~Loading(c.kind)']_vars
    /\ isLoading ~> (~isLoading \/ crashed)
    /\ \A kind \in Kinds : Loading(kind) ~> (~Loading(kind) \/ crashed)

\* A generate-class call has just failed on a response that is not ok while a
\* preview call is still pending: the first flag is false, the second true.
C14_Witness ==
    /\ ev.kind = "generate"
    /\ ev.op = "notOk"
    /\ ~isLoadingGenerate
    /\ isLoadingPreview
    /\ InFlight("generate") = 0
    /\ InFlight("preview") = 1
    /\ ~crashed

\* C15: the stored preview changes only in a step in which the body of a
\* successful preview response has been read; no other step (a failed preview
\* request, a register or generate-class request however it ends, anything
\* else) changes it.
C15_PreviewOnlyOnSuccess ==
    [][preview' # preview =>
          \E c \in CallShapes, body \in ResponseBodies :
              c.kind = "preview" /\ JsonResolves(c, body)]_vars

(***************************************************************************)
(* SpecPayload: GeneratedOutput rendered with the mappings and defaults of *)
(* PayloadMappings and PayloadDefaultSets, under the class name Ab         *)
(***************************************************************************)
PayloadMappings ==
    {<<>>,
     << <<BASE_REQUEST_FIELDS[8], JStr(<<"a">>)>> >>,
     << <<CurrentLat, JStr(<<"a">>)>>, <<BASE_REQUEST_FIELDS[8], JStr(<<"o", ".", "b">>)>> >>,
     << <<CurrentLng, JStr(<<"o", ".", "b">>)>> >>}

PayloadDefaultSets ==
    {<<>>,
     << <<CurrentLat, JStr(<<"5">>)>> >>,
     << <<BASE_REQUEST_FIELDS[8], JStr(<<"x">>)>>, <<CurrentLng, JStr(<<"t", "r", "u", "e">>)>> >>,
     << <<CurrentLat, JStr(<<>>)>>, <<CurrentLng, JStr(<<"[", "1", "]">>)>> >>,
     << <<BASE_REQUEST_FIELDS[8], JStr(<<"n", "u", "l", "l">>)>>, <<CurrentLat, JStr(<<"x">>)>>,
        <<BASE_REQUEST_FIELDS[1], JStr(<<"-", "7">>)>> >>}

PayloadInit ==
    \E mapping \in PayloadMappings, defs \in PayloadDefaultSets :
        IdlePage(SchemaText, <<"A", "b">>, JSONparse(SchemaText).val, mapping, defs)

SpecPayload == PayloadInit /\ [][OutputNext]_vars

\* The keys of an object
KeysOf(pairs) == {pairs[i][1] : i \in 1..Len(pairs)}

\* C16: in configJson, defaults has neither 'currentLocation.lat' nor
\* 'currentLocation.lng'; each of the two that the defaults prop defines is
\* in fieldMapping with its parsed value, whatever path was mapped to it;
\* every other key of the defaults prop is in defaults with its parsed value;
\* and every other entry of the fieldMapping prop is in fieldMapping unchanged.
C16_ConfigShape ==
    LET configMapping == GetProp(configJson, <<"f", "i", "e", "l", "d", "M", "a", "p", "p", "i", "n", "g">>)
        configDefaults == GetProp(configJson, <<"d", "e", "f", "a", "u", "l", "t", "s">>)
        located == {CurrentLat, CurrentLng}
    IN /\ KeysOf(configDefaults.v) \cap located = {}
       /\ \A k \in located \cap KeysOf(pageDefaults) :
             GetProp(configMapping, k) = parseValue(GetProp(JObj(pageDefaults), k))
       /\ \A k \in KeysOf(pageDefaults) \ located :
             GetProp(configDefaults, k) = parseValue(GetProp(JObj(pageDefaults), k))
       /\ \A k \in KeysOf(pageFieldMapping) \ (located \cap KeysOf(pageDefaults)) :
             GetProp(configMapping, k) = GetProp(JObj(pageFieldMapping), k)

\* A preview request has just been sent from a render in which
\* 'currentLocation.lat' is mapped to the path a and has the default '5': the
\* body carries fieldMapping['currentLocation.lat'] = 5 and no defaults.
C16_Witness ==
    /\ ev.op = "previewMapping"
    /\ GetProp(JObj(pageFieldMapping), CurrentLat) = JStr(<<"a">>)
    /\ pageDefaults = << <<CurrentLat, JStr(<<"5">>)>> >>
    /\ Len(ev.requests) = 1
    /\ LET sent == JSONparse(ev.requests[1].body).val
       IN /\ GetProp(GetProp(sent, <<"f", "i", "e", "l", "d", "M", "a", "p", "p", "i", "n", "g">>), CurrentLat) = JNum(5)
          /\ GetProp(GetProp(sent, <<"f", "i", "e", "l", "d", "M", "a", "p", "p", "i", "n", "g">>), BASE_REQUEST_FIELDS[8]) = JStr(<<"o", ".", "b">>)
          /\ GetProp(sent, <<"d", "e", "f", "a", "u", "l", "t", "s">>) = JObj(<<>>)

(***************************************************************************)
(* SpecParse: GeneratedOutput rendered with one default, of userType,      *)
(* whose value is drawn from ParseInputs                                   *)
(***************************************************************************)
\* Values handed to parseValue: strings, and values that are not strings
ParseInputs ==
    {JStr(<<>>), JStr(<<"t", "r", "u", "e">>), JStr(<<"f", "a", "l", "s", "e">>), JStr(<<"n", "u", "l", "l">>), JStr(<<"x">>), JStr(<<"5">>),
     JStr(<<" ", "5">>), JStr(<<"-", "7">>), JStr(<<"5", "x">>), JStr(<<"[", "1", "]">>), JStr(<<"[", "1">>), JStr(<<"[", "x", "]">>),
     JStr(<<"[", "]">>), JStr(<<"[", "\"", "t", "r", "u", "e", "\"", "]">>), JStr(<<"{", "\"", "a", "\"", ":", "\"", "5", "\"", "}">>), JStr(<<"{", "a", "}">>), JStr(<<"{", "}">>),
     JStr(<<"\"", "t", "r", "u", "e", "\"">>), JStr(<<" ", "t", "r", "u", "e">>),
     JNull, JBool(TRUE), JNum(3), JArr(<<JStr(<<"t", "r", "u", "e">>)>>), JObj(<<>>),
     JObj(<< <<<<"a">>, JStr(<<"5">>)>> >>)}

ParseInit ==
    \E value \in ParseInputs :
        IdlePage(SchemaText, <<"A", "b">>, JSONparse(SchemaText).val, <<>>,
                 << <<BASE_REQUEST_FIELDS[8], value>> >>)

SpecParse == ParseInit /\ [][OutputNext]_vars

\* The string starts with [ and ends with ], or starts with { and ends with }
Delimited(s) ==
    \/ startsWith(s, <<"[">>) /\ endsWith(s, <<"]">>)
    \/ startsWith(s, <<"{">>) /\ endsWith(s, <<"}">>)

\* C17: parseValue returns a value that is not a string unchanged, turns
\* 'true', 'false' and 'null' into true, false and null, turns a string
\* delimited by [] or {} into what JSON.parse makes of it and returns it
\* unchanged when JSON.parse throws, always returns a value, and applied to
\* its own result returns that result.
C17_ParseValue ==
    \A k \in KeysOf(pageDefaults) :
        LET value == GetProp(JObj(pageDefaults), k)
            parsed == parseValue(value)
        IN /\ value.t # "str" => parsed = value
           /\ value = JStr(<<"t", "r", "u", "e">>) => parsed = JBool(TRUE)
           /\ value = JStr(<<"f", "a", "l", "s", "e">>) => parsed = JBool(FALSE)
           /\ value = JStr(<<"n", "u", "l", "l">>) => parsed = JNull
           /\ (value.t = "str" /\ Delimited(value.v)) =>
                 parsed = (IF JSONparse(value.v).ok THEN JSONparse(value.v).val ELSE value)
           /\ parsed.t \in {"null", "bool", "num", "str", "arr", "obj"}
           /\ parseValue(parsed) = parsed
           /\ GetProp(GetProp(configJson, <<"d", "e", "f", "a", "u", "l", "t", "s">>), k) = parsed

\* A register request has just been sent with the default '["true"]': the
\* body carries the array ["true"], whose element is still a string.
C17_Witness ==
    /\ ev.op = "registerMapping"
    /\ pageDefaults = << <<BASE_REQUEST_FIELDS[8], JStr(<<"[", "\"", "t", "r", "u", "e", "\"", "]">>)>> >>
    /\ parseValue(JStr(<<"[", "\"", "t", "r", "u", "e", "\"", "]">>)) = JArr(<<JStr(<<"t", "r", "u", "e">>)>>)
    /\ Len(ev.requests) = 1
    /\ GetProp(GetProp(JSONparse(ev.requests[1].body).val, <<"d", "e", "f", "a", "u", "l", "t", "s">>), BASE_REQUEST_FIELDS[8])
          = JArr(<<JStr(<<"t", "r", "u", "e">>)>>)

\* The ids of the properties of a tree
IdsOf(props) == {p.id : p \in Nodes(props)}

\* C18: in SchemaBuilder every property whose type is not 'object' has no
\* nested properties, whatever the controls were used for; and when the
\* type select takes a property away from 'object', the property is left
\* without nested properties and all of them are gone from the tree.
C18_NonObjectsHaveNoChildren ==
    /\ [](\A p \in Nodes(properties) : p.type # ObjectStr => p.properties = <<>>)
    /\ [][\A prop \in Nodes(properties), value \in BuilderTypes :
            (prop.type = ObjectStr /\ value # ObjectStr /\ updateType(prop, value)) =>
                /\ \A q \in Nodes(properties') : q.id = prop.id => q.properties = <<>>
                /\ IdsOf(properties') \cap IdsOf(prop.properties) = {}]_vars

\* The one property left was an object once, since it is still marked
\* open, and is a string now; of the three properties ever created the two
\* nested ones are gone.
C18_Witness ==
    /\ Len(properties) = 1
    /\ properties[1].type = StringStr
    /\ properties[1].isOpen
    /\ properties[1].properties = <<>>
    /\ IdsOf(properties) = {1}
    /\ nextId = 4

====
